---- MODULE Spec2Model ----
(***************************************************************************)
(* mini_lambda: construction, freezing and evaluation of lambda            *)
(* expressions (src/mini_lambda/base.py, src/mini_lambda/main.py).         *)
(*                                                                         *)
(* The heap is the sequence of expression objects created so far; an       *)
(* object's address (its id()) is its index in the heap.  The inner        *)
(* function _fun of an expression is a closure: it is modelled by the      *)
(* record of what the closure captures (the operation, self, the other     *)
(* operands), and running it is the operator Run.                          *)
(***************************************************************************)
EXTENDS Integers, Sequences, FiniteSets, TLC

VARIABLES heap, funcs, result
vars == <<heap, funcs, result>>

\* ------------------------------------------------------------------ bounds
MaxNodes == 4
MaxFuncs == 2
MaxObjects == 5
MaxArgs == 2

\* ------------------------------------------------------- program constants
_CONSTANT_VAR_ID == -1
None == 0
_PRECEDENCE_BITWISE_OR == 6
_PRECEDENCE_BITWISE_XOR == 7
_PRECEDENCE_BITWISE_AND == 8
_PRECEDENCE_POS_NEG_BITWISE_NOT == 12
_PRECEDENCE_EXPONENTIATION == 13
_PRECEDENCE_SUBSCRIPTION_SLICING_CALL_ATTRREF == 15
_PRECEDENCE_MAX == 17
NoPrecedence == -1

\* ---------------------------------------------------------- python values
IntV(n) == [t |-> "int", v |-> n]
BoolV(b) == [t |-> "bool", v |-> b]
StrV(s) == [t |-> "str", v |-> s]
FnV(name) == [t |-> "function", v |-> name]
FloatV(n) == [t |-> "float", v |-> n]
TupV(s) == [t |-> "tuple", v |-> s]
SliceV(s) == [t |-> "slice", v |-> s]
PartialV(name) == [t |-> "partial", v |-> name]
ClassV(name) == [t |-> "class", v |-> name]
ExcV(kind) == [t |-> "exception", v |-> kind]
NoneV == [t |-> "NoneType", v |-> "None"]
NotImplementedV == [t |-> "NotImplementedType", v |-> "NotImplemented"]

IsExc(v) == v.t = "exception"
IsNumber(v) == v.t \in {"int", "bool", "float"}
\* an integer or a boolean, what an index can be
IsIndex(v) == v.t \in {"int", "bool"}
Num(v) == IF v.t = "bool" THEN (IF v.v THEN 1 ELSE 0) ELSE v.v
\* the number n as the result of arithmetic on a and b: a float if either is.
\* The numbers of the model are -1, 0 and 1, so that every float is whole.
NumV(a, b, n) == IF a.t = "float" \/ b.t = "float" THEN FloatV(n) ELSE IntV(n)

\* bool(v)
Truthy(v) ==
  CASE v.t \in {"int", "float"} -> v.v # 0
    [] v.t = "bool" -> v.v
    [] v.t = "str" -> v.v # ""
    [] v.t = "tuple" -> Len(v.v) > 0
    [] OTHER -> TRUE

\* callable(v), for a plain value
PyCallable(v) == v.t \in {"function", "partial", "class"}

\* isclass(v)
IsClass(v) == v.t = "class"

\* hasattr(v, '__name__') for a callable: functions (lambdas too) and classes
\* have one, a partial has none
HasName(v) == v.t \in {"function", "class"}

\* repr(v) and str(v) of a plain value (they differ on strings only)
PyRepr(v) ==
  CASE v.t = "int" -> ToString(v.v)
    [] v.t = "float" -> ToString(v.v) \o ".0"
    [] v.t = "bool" -> (IF v.v THEN "True" ELSE "False")
    [] v.t = "str" -> "'" \o v.v \o "'"
    [] v.t = "tuple" /\ Len(v.v) = 0 -> "()"
    [] v.t = "tuple" /\ Len(v.v) = 1 /\ v.v[1].t = "int" -> "(" \o ToString(v.v[1].v) \o ",)"
    [] v.t = "slice" /\ Len(v.v) = 1 /\ v.v[1].t = "int" ->
         "slice(None, " \o ToString(v.v[1].v) \o ", None)"
    [] v.t = "slice" /\ Len(v.v) = 2 /\ v.v[1].t = "int" /\ v.v[2].t = "int" ->
         "slice(" \o ToString(v.v[1].v) \o ", " \o ToString(v.v[2].v) \o ", None)"
    [] v.t = "slice" /\ Len(v.v) = 3 /\ \A k \in 1..3 : v.v[k].t = "int" ->
         "slice(" \o ToString(v.v[1].v) \o ", " \o ToString(v.v[2].v) \o ", "
           \o ToString(v.v[3].v) \o ")"
    [] v.t = "NoneType" -> "None"
    [] v.t = "NotImplementedType" -> "NotImplemented"
    [] v.t = "function" -> "<built-in function " \o v.v \o ">"
    [] v.t = "class" -> "<class '" \o v.v \o "'>"
    [] OTHER -> "<" \o v.t \o ">"

PyStr(v) == IF v.t = "str" THEN v.v ELSE PyRepr(v)

\* the values the model draws from
Inputs == {IntV(0), IntV(1), TupV(<<>>)}
Numbers == {IntV(0), IntV(1)}
AttrNames == {StrV("real"), StrV("foo")}
Functions == {FnV("max")}
ConstValues == {IntV(0), IntV(1), FnV("max")}
Symbols == {"x", "y"}
\* what InputVar is given: a symbol, the empty string, a number, or nothing
SymbolArgs == {StrV(symbol) : symbol \in Symbols} \cup {StrV(""), IntV(1), NoneV}
\* a lambda, a partial and a class, for Constant
OtherCallables == {FnV("<lambda>"), PartialV("max"), ClassV("int")}
ConstNames == {"", "f"}
\* an anonymous function as a plain operand
Lambdas == {FnV("<lambda>")}
Containers == {TupV(<<IntV(1)>>)}
Templates == {StrV("{}")}
\* method names for add_bound_method_to_stack: one that numbers have, one
\* that no value has, one that every value has
MethodNames == {"conjugate", "foo", "__eq__"}

\* a ** b
RECURSIVE IntPow(_, _)
IntPow(a, b) == IF b = 0 THEN 1 ELSE a * IntPow(a, b - 1)

PyPow(a, b) ==
  IF ~(IsNumber(a) /\ IsNumber(b)) THEN ExcV("TypeError")
  ELSE IF Num(b) >= 0 THEN NumV(a, b, IntPow(Num(a), Num(b)))
  ELSE IF Num(a) = 0 THEN ExcV("ZeroDivisionError")
  ELSE FloatV(IntPow(Num(a), 0 - Num(b)))

\* -a
PyNeg(a) == IF IsNumber(a) THEN NumV(a, a, 0 - Num(a)) ELSE ExcV("TypeError")

\* divmod(a, b)
PyDivmod(a, b) ==
  IF ~(IsNumber(a) /\ IsNumber(b)) THEN ExcV("TypeError")
  ELSE IF Num(b) = 0 THEN ExcV("ZeroDivisionError")
  ELSE IF Num(b) > 0
       THEN TupV(<<NumV(a, b, Num(a) \div Num(b)), NumV(a, b, Num(a) % Num(b))>>)
       ELSE TupV(<<NumV(a, b, (0 - Num(a)) \div (0 - Num(b))),
                   NumV(a, b, 0 - ((0 - Num(a)) % (0 - Num(b))))>>)

\* getattr(r, name)
PyGetattr(r, name) ==
  IF name.t # "str" THEN ExcV("TypeError")
  ELSE IF IsNumber(r) /\ name.v = "real" THEN NumV(r, r, Num(r))
  ELSE ExcV("AttributeError")

\* the position of index key in a sequence of length n (0 if out of range)
Position(key, n) ==
  LET k == IF Num(key) < 0 THEN Num(key) + n + 1 ELSE Num(key) + 1
  IN IF k \in 1..n THEN k ELSE 0

\* r.__getitem__(key)
PyGetitem(r, key) ==
  IF r.t # "tuple" THEN ExcV("AttributeError")
  ELSE IF ~IsIndex(key) THEN ExcV("TypeError")
  ELSE IF Position(key, Len(r.v)) # 0 THEN r.v[Position(key, Len(r.v))]
  ELSE ExcV("IndexError")

\* max(*args, **kwargs), the one plain function of the model
PyMax(args, kwargs) ==
  IF Len(kwargs) > 0 \/ Len(args) < 2 THEN ExcV("TypeError")
  ELSE IF \E k \in DOMAIN args : ~IsNumber(args[k]) THEN ExcV("TypeError")
  ELSE LET best == CHOOSE k \in DOMAIN args :
                     /\ \A j \in DOMAIN args : Num(args[j]) <= Num(args[k])
                     /\ \A j \in DOMAIN args : Num(args[j]) = Num(args[k]) => k <= j
       IN args[best]

\* int(*args, **kwargs), the one class of the model
PyInt(args, kwargs) ==
  IF Len(kwargs) > 0 \/ Len(args) > 1 THEN ExcV("TypeError")
  ELSE IF Len(args) = 0 THEN IntV(0)
  ELSE IF IsNumber(args[1]) THEN IntV(Num(args[1]))
  ELSE ExcV("TypeError")

\* r.__call__(*args, **kwargs); the lambda and the partial of the model both
\* pass their arguments on to max
PyCall(r, args, kwargs) ==
  IF r.t = "class" THEN PyInt(args, kwargs)
  ELSE IF r = FnV("input")
       \* the builtin input, with nothing to read on the standard input
       THEN (IF Len(kwargs) > 0 \/ Len(args) > 1 THEN ExcV("TypeError") ELSE ExcV("EOFError"))
  ELSE IF PyCallable(r) THEN PyMax(args, kwargs)
  ELSE ExcV("AttributeError")

\* a == b for two plain values
PyEq(a, b) ==
  IF IsNumber(a) /\ IsNumber(b) THEN Num(a) = Num(b)
  ELSE IF a.t # b.t THEN FALSE
  ELSE a = b

\* hasattr(res, method_name) and res.method_name(*args, **kwargs) for the
\* method names of the model
PyHasMethod(res, method_name) ==
  \/ method_name = "conjugate" /\ IsNumber(res)
  \/ method_name = "__eq__"

\* res.__eq__(other): the comparison of the type of res, which returns
\* NotImplemented for a value it does not know how to compare with
PyEqMethod(res, other) ==
  IF \/ IsIndex(res) /\ IsIndex(other)
     \/ res.t = "float" /\ IsNumber(other)
     \/ res.t = "tuple" /\ other.t = "tuple"
     \/ res = other
  THEN BoolV(PyEq(res, other))
  ELSE NotImplementedV

PyCallMethod(res, method_name, args, kwargs) ==
  IF method_name = "__eq__"
  THEN (IF Len(args) = 1 /\ Len(kwargs) = 0 THEN PyEqMethod(res, args[1]) ELSE ExcV("TypeError"))
  ELSE IF Len(args) = 0 /\ Len(kwargs) = 0 THEN NumV(res, res, Num(res)) ELSE ExcV("TypeError")

\* any(v) and all(v)
PyAny(v) ==
  IF v.t = "tuple" THEN BoolV(\E k \in DOMAIN v.v : Truthy(v.v[k]))
  ELSE IF v.t = "str" THEN BoolV(v.v # "")
  ELSE ExcV("TypeError")

PyAll(v) ==
  IF v.t = "tuple" THEN BoolV(\A k \in DOMAIN v.v : Truthy(v.v[k]))
  ELSE IF v.t = "str" THEN BoolV(TRUE)
  ELSE ExcV("TypeError")

\* item in container, for two plain values of the model (no string items)
PyIn(item, container) ==
  IF container.t = "tuple" THEN BoolV(\E k \in DOMAIN container.v : PyEq(container.v[k], item))
  ELSE ExcV("TypeError")

\* tuple.__getitem__(container, key)
PyTupleGetitem(container, key) ==
  IF container.t # "tuple" \/ ~IsIndex(key) THEN ExcV("TypeError")
  ELSE IF Position(key, Len(container.v)) # 0
       THEN container.v[Position(key, Len(container.v))]
  ELSE ExcV("IndexError")

\* str.format('{}', value) for the one template of the model
PyFormat(template, args) ==
  IF template.t # "str" THEN ExcV("TypeError")
  ELSE IF Len(args) = 0 THEN ExcV("IndexError")
  ELSE StrV(PyStr(args[1]))

\* ------------------------------------------------------------- operands
\* what a python name can refer to in the operations of the model
NodeRef(i) == [k |-> "node", i |-> i]
Lit(v) == [k |-> "lit", v |-> v]
FuncRef(i) == [k |-> "func", i |-> i]
TupleRef(s) == [k |-> "tuple", v |-> s]
NoRef == [k |-> "none"]

IsNode(a) == a.k = "node"

\* the expressions of the heap and the plain values of S
Operands(h, S) == {NodeRef(i) : i \in DOMAIN h} \cup {Lit(v) : v \in S}

RECURSIVE SeqsUpTo(_, _)
SeqsUpTo(S, n) ==
  IF n = 0 THEN {<<>>}
  ELSE LET shorter == SeqsUpTo(S, n - 1)
       IN shorter \cup {Append(s, e) : s \in {t \in shorter : Len(t) = n - 1}, e \in S}


\* ------------------------------------------------------------ expressions
\* a variant where every variable gets the same root variable
Variable_same_root_var(self, str_expr) ==
  [_fun |-> [code |-> "identity"],
   _str_expr |-> IF str_expr = "" THEN "x" ELSE str_expr,
   _root_var |-> 1,
   _precedence_level |-> _PRECEDENCE_MAX]

\* _LambdaExpressionBase.__init__, case 2: a variable.  self is the address
\* of the object under construction.
Variable(self, str_expr) ==
  [_fun |-> [code |-> "identity"],
   _str_expr |-> IF str_expr = "" THEN "x" ELSE str_expr,
   _root_var |-> self,
   _precedence_level |-> _PRECEDENCE_MAX]

\* _LambdaExpressionBase.__init__, case 1: a constant.
ConstantNode(str_expr, constant_value) ==
  [_fun |-> [code |-> "constant", constant_value |-> constant_value],
   _str_expr |-> IF str_expr = "" THEN PyStr(constant_value) ELSE str_expr,
   _root_var |-> _CONSTANT_VAR_ID,
   _precedence_level |-> _PRECEDENCE_MAX]

\* _LambdaExpressionBase.__init__, case 3: an expression.
Expression(fun, precedence_level, str_expr, root_var) ==
  [_fun |-> fun,
   _str_expr |-> str_expr,
   _root_var |-> root_var,
   _precedence_level |-> precedence_level]

\* what an operation does: it raises, or returns a reference, after
\* creating the objects in new (appended to the heap in this order)
Raise(kind) == [raised |-> kind, new |-> <<>>, ret |-> NoRef, warned |-> FALSE]
Return(ref) == [raised |-> "", new |-> <<>>, ret |-> ref, warned |-> FALSE]
Create(h, node) ==
  [raised |-> "", new |-> <<node>>, ret |-> NodeRef(Len(h) + 1), warned |-> FALSE]
Warned(out) == [out EXCEPT !.warned = TRUE]

\* _LambdaExpressionBase.to_string
to_string(h, i) == h[i]._str_expr

\* a variant of get_repr that also protects a statement of the same precedence
get_repr_also_equal(h, statement, target_precedence_level) ==
  IF ~IsNode(statement) /\ ~PyCallable(statement.v) THEN PyRepr(statement.v)
  ELSE IF IsNode(statement)
       THEN IF /\ target_precedence_level # NoPrecedence
               /\ target_precedence_level >= h[statement.i]._precedence_level
            THEN "(" \o to_string(h, statement.i) \o ")"
            ELSE to_string(h, statement.i)
       ELSE statement.v.v

\* get_repr(statement, target_precedence_level); NoPrecedence stands for the
\* None that is passed for comma-separated items
get_repr(h, statement, target_precedence_level) ==
  IF ~IsNode(statement) /\ ~PyCallable(statement.v) THEN PyRepr(statement.v)
  ELSE IF IsNode(statement)
       THEN IF /\ target_precedence_level # NoPrecedence
               /\ target_precedence_level > h[statement.i]._precedence_level
            THEN "(" \o to_string(h, statement.i) \o ")"
            ELSE to_string(h, statement.i)
       ELSE statement.v.v

\* ', '.join(...)
RECURSIVE Join(_)
Join(strs) ==
  IF Len(strs) = 0 THEN ""
  ELSE IF Len(strs) = 1 THEN strs[1]
  ELSE strs[1] \o ", " \o Join(Tail(strs))

\* _LambdaExpressionBase.assert_has_same_root_var(self, other): the root
\* variable to use, or the error
FunctionDefinitionError == "FunctionDefinitionError"

\* a variant that tells variables apart by their display name
assert_has_same_root_var_by_name(h, self, other) ==
  IF IsNode(other)
  THEN IF /\ h[self]._root_var # _CONSTANT_VAR_ID
          /\ h[other.i]._root_var # _CONSTANT_VAR_ID
          /\ h[self]._str_expr # h[other.i]._str_expr
       THEN [raised |-> FunctionDefinitionError, root_var |-> None]
       ELSE [raised |-> "",
             root_var |-> IF h[self]._root_var # _CONSTANT_VAR_ID
                          THEN h[self]._root_var
                          ELSE h[other.i]._root_var]
  ELSE [raised |-> "", root_var |-> h[self]._root_var]

\* a variant that always returns the root variable of self
assert_has_same_root_var_of_self(h, self, other) ==
  IF IsNode(other)
  THEN IF /\ h[self]._root_var # _CONSTANT_VAR_ID
          /\ h[other.i]._root_var # _CONSTANT_VAR_ID
          /\ h[self]._root_var # h[other.i]._root_var
       THEN [raised |-> FunctionDefinitionError, root_var |-> None]
       ELSE [raised |-> "", root_var |-> h[self]._root_var]
  ELSE [raised |-> "", root_var |-> h[self]._root_var]

assert_has_same_root_var(h, self, other) ==
  IF IsNode(other)
  THEN IF /\ h[self]._root_var # _CONSTANT_VAR_ID
          /\ h[other.i]._root_var # _CONSTANT_VAR_ID
          /\ h[self]._root_var # h[other.i]._root_var
       THEN [raised |-> FunctionDefinitionError, root_var |-> None]
       ELSE [raised |-> "",
             root_var |-> IF h[self]._root_var # _CONSTANT_VAR_ID
                          THEN h[self]._root_var
                          ELSE h[other.i]._root_var]
  ELSE [raised |-> "", root_var |-> h[self]._root_var]

\* the loop of _get_root_var over the arguments from position k on
RECURSIVE RootVarLoop(_, _, _, _, _)
RootVarLoop(h, all, k, first_expression, root_var) ==
  IF k > Len(all) THEN [raised |-> "", root_var |-> root_var, first_expression |-> first_expression]
  ELSE IF first_expression = None
       THEN RootVarLoop(h, all, k + 1,
                        IF IsNode(all[k]) THEN all[k].i ELSE None, root_var)
       ELSE LET r == assert_has_same_root_var(h, first_expression, all[k])
            IN IF r.raised # ""
               THEN [raised |-> r.raised, root_var |-> None, first_expression |-> first_expression]
               ELSE RootVarLoop(h, all, k + 1, first_expression, r.root_var)

\* _get_root_var(*args, **kwargs); kwargs is a sequence of <<name, value>>
KwValues(kwargs) == [k \in DOMAIN kwargs |-> kwargs[k][2]]

_get_root_var(h, args, kwargs) ==
  LET r == RootVarLoop(h, args \o KwValues(kwargs), 1, None, None)
  IN IF r.raised # "" THEN r
     ELSE [r EXCEPT !.root_var =
             IF r.root_var # None THEN r.root_var
             ELSE IF r.first_expression # None THEN h[r.first_expression]._root_var
             ELSE None]


\* ------------------------------------------------------------- evaluation
\* Running an evaluator yields a value (or the exception it raised) and the
\* log of the expressions whose inner function was invoked, in call order.
Application(method, vals, kwvals) ==
  CASE method = "bool" ->
         IF Len(vals) = 1 /\ Len(kwvals) = 0 THEN BoolV(Truthy(vals[1])) ELSE ExcV("TypeError")
    [] method = "__not" ->
         IF Len(vals) = 1 /\ Len(kwvals) = 0 THEN BoolV(~Truthy(vals[1])) ELSE ExcV("TypeError")
    [] method = "_and" ->
         IF Len(vals) = 2 /\ Len(kwvals) = 0
         THEN (IF Truthy(vals[1]) THEN vals[2] ELSE vals[1])
         ELSE ExcV("TypeError")
    [] method = "any" ->
         IF Len(vals) = 1 /\ Len(kwvals) = 0 THEN PyAny(vals[1]) ELSE ExcV("TypeError")
    [] method = "all" ->
         IF Len(vals) = 1 /\ Len(kwvals) = 0 THEN PyAll(vals[1]) ELSE ExcV("TypeError")
    [] method = "_is_in" ->
         IF Len(vals) = 2 /\ Len(kwvals) = 0 THEN PyIn(vals[1], vals[2]) ELSE ExcV("TypeError")
    [] method = "tuple.__getitem__" ->
         IF Len(vals) = 2 /\ Len(kwvals) = 0
         THEN PyTupleGetitem(vals[1], vals[2]) ELSE ExcV("TypeError")
    [] method = "LambdaExpression.__getitem__" ->
         \* called on two plain values: self.repr_on is read on a plain value
         IF Len(vals) = 2 /\ Len(kwvals) = 0 THEN ExcV("AttributeError") ELSE ExcV("TypeError")
    [] method = "slice" ->
         IF Len(vals) \in 1..3 /\ Len(kwvals) = 0 THEN SliceV(vals) ELSE ExcV("TypeError")
    [] method = "str.format" ->
         IF Len(vals) >= 1 THEN PyFormat(vals[1], Tail(vals)) ELSE ExcV("TypeError")
    [] OTHER -> PyMax(vals, kwvals)

\* method.__name__
MethodName(method) ==
  CASE method \in {"tuple.__getitem__", "LambdaExpression.__getitem__"} -> "__getitem__"
    [] method = "str.format" -> "format"
    [] method \in {"is_in._item_in", "contains._item_in"} -> "_item_in"
    [] OTHER -> method

\* is_in._item_in(x): x in container, where container is what is_in was given;
\* with an expression as container this is LambdaExpression.__contains__
is_in_item_in(x, container) ==
  IF container.k = "node" THEN ExcV("FunctionDefinitionError") ELSE PyIn(x, container.v)

\* contains._item_in(x): item in x, where item is what contains was given.
\* The values x of the model that are containers hold plain numbers; looking
\* for an expression among them compares it with each, and the truth value
\* of a comparison with an expression is forbidden.
contains_item_in(x, item) ==
  IF x.t # "tuple" THEN ExcV("TypeError")
  ELSE IF item.k # "node" THEN PyIn(item.v, x)
  ELSE IF Len(x.v) = 0 THEN BoolV(FALSE)
  ELSE ExcV("FunctionDefinitionError")

\* (left and not right) or (not left and right)
PyXor(left, right) ==
  LET a == IF Truthy(left) THEN BoolV(~Truthy(right)) ELSE left
      b == IF ~Truthy(left) THEN right ELSE BoolV(FALSE)
  IN IF Truthy(a) THEN a ELSE b

RECURSIVE Run(_, _, _)

\* evaluate(statement, input)
evaluate(h, statement, input) ==
  IF IsNode(statement) THEN Run(h, statement.i, input)
  ELSE [val |-> statement.v, log |-> <<>>]

\* [evaluate(arg, input) for arg in args]: the values so far, the log, and
\* the exception that stopped the loop if any
RECURSIVE EvaluateAll(_, _, _, _)
EvaluateAll(h, args, input, acc) ==
  IF Len(args) = 0 \/ IsExc(acc.val) THEN acc
  ELSE LET e == evaluate(h, Head(args), input)
       IN EvaluateAll(h, Tail(args), input,
                      [val |-> IF IsExc(e.val) THEN e.val ELSE acc.val,
                       vals |-> IF IsExc(e.val) THEN acc.vals ELSE Append(acc.vals, e.val),
                       log |-> acc.log \o e.log])

NoneYet == [val |-> BoolV(TRUE), vals |-> <<>>, log |-> <<>>]

\* evaluate the positional then the keyword arguments and apply Apply to them
EvaluateArgs(h, args, kwargs, input) ==
  LET a == EvaluateAll(h, args, input, NoneYet)
      kw == EvaluateAll(h, KwValues(kwargs), input, [a EXCEPT !.vals = <<>>])
  IN [val |-> kw.val, vals |-> a.vals, kwvals |-> kw.vals, log |-> kw.log]

\* r = self.evaluate(input), then Rest(r) if that did not raise
Propagate(r, rest) ==
  IF IsExc(r.val) THEN r ELSE [val |-> rest.val, log |-> r.log \o rest.log]

\* _get_expression_for_method_with_args.evaluate_all_and_apply_method
evaluate_all_and_apply_method(h, f, input) ==
  LET a == EvaluateArgs(h, f.args, f.kwargs, input)
  IN [val |-> IF IsExc(a.val) THEN a.val
              ELSE IF f.method = "is_in._item_in" THEN is_in_item_in(a.vals[1], f.captured)
              ELSE IF f.method = "contains._item_in" THEN contains_item_in(a.vals[1], f.captured)
              ELSE Application(f.method, a.vals, a.kwvals),
      log |-> a.log]

\* LambdaExpression.__call__.___call__
___call__(h, f, input) ==
  LET r == Run(h, f.self, input)
      a == EvaluateArgs(h, f.args, f.kwargs, input)
  IN Propagate(r, [val |-> IF IsExc(a.val) THEN a.val ELSE PyCall(r.val, a.vals, a.kwvals),
                   log |-> a.log])

\* a variant of the closure of __and__ that evaluates both sides first
and_evaluate_both_eagerly(h, f, input) ==
  LET left == Run(h, f.self, input)
      right == evaluate(h, f.other, input)
  IN Propagate(left, [val |-> IF IsExc(right.val) THEN right.val
                              ELSE IF ~Truthy(left.val) THEN BoolV(FALSE)
                              ELSE BoolV(Truthy(right.val)),
                      log |-> right.log])

\* LambdaExpression.__and__.evaluate_both_inner_functions_and_combine
and_evaluate_both_inner_functions_and_combine(h, f, input) ==
  LET left == Run(h, f.self, input)
      right == evaluate(h, f.other, input)
  IN IF IsExc(left.val) THEN left
     ELSE IF ~Truthy(left.val) THEN [val |-> BoolV(FALSE), log |-> left.log]
     ELSE Propagate(left, [val |-> IF IsExc(right.val) THEN right.val
                                   ELSE BoolV(Truthy(right.val)),
                           log |-> right.log])

\* a variant of the closure of __or__ that evaluates both sides first
or_evaluate_both_eagerly(h, f, input) ==
  LET left == Run(h, f.self, input)
      right == evaluate(h, f.other, input)
  IN Propagate(left, [val |-> IF IsExc(right.val) THEN right.val
                              ELSE IF Truthy(left.val) THEN BoolV(TRUE)
                              ELSE BoolV(Truthy(right.val)),
                      log |-> right.log])

\* LambdaExpression.__or__.evaluate_both_inner_functions_and_combine
or_evaluate_both_inner_functions_and_combine(h, f, input) ==
  LET left == Run(h, f.self, input)
      right == evaluate(h, f.other, input)
  IN IF IsExc(left.val) THEN left
     ELSE IF Truthy(left.val) THEN [val |-> BoolV(TRUE), log |-> left.log]
     ELSE Propagate(left, [val |-> IF IsExc(right.val) THEN right.val
                                   ELSE BoolV(Truthy(right.val)),
                           log |-> right.log])

\* LambdaExpression.__xor__.evaluate_both_inner_functions_and_combine
xor_evaluate_both_inner_functions_and_combine(h, f, input) ==
  LET left == Run(h, f.self, input)
      right == evaluate(h, f.other, input)
  IN Propagate(left, [val |-> IF IsExc(right.val) THEN right.val
                              ELSE PyXor(left.val, right.val),
                      log |-> right.log])

\* add_bound_method_to_stack.evaluate_inner_function_and_apply_object_method:
\* the arguments are evaluated on 'input', which in that closure is the
\* builtin function of that name (the parameter is raw_input)
evaluate_inner_function_and_apply_object_method(h, f, raw_input) ==
  LET res == Run(h, f.self, raw_input)
      a == EvaluateArgs(h, f.args, f.kwargs, FnV("input"))
  IN IF IsExc(res.val) THEN res
     ELSE IF ~PyHasMethod(res.val, f.method_name)
          THEN [val |-> ExcV("AttributeError"), log |-> res.log]
          ELSE [val |-> IF IsExc(a.val) THEN a.val
                        ELSE PyCallMethod(res.val, f.method_name, a.vals, a.kwvals),
                log |-> res.log \o a.log]

\* the closure ___neg__ of the unary minus: -self.evaluate(input)
___neg__(h, f, input) ==
  LET r == Run(h, f.self, input)
  IN [val |-> IF IsExc(r.val) THEN r.val ELSE PyNeg(r.val), log |-> r.log]

\* the closures ___pow__, ___rpow__, ___divmod__, ___getitem__ and ___getattr__:
\* r = self.evaluate(input), then the operation on r and evaluate(other, input)
BinaryClosure(h, f, input) ==
  LET r == Run(h, f.self, input)
      o == evaluate(h, f.other, input)
  IN Propagate(r, [val |-> IF IsExc(o.val) THEN o.val
                           ELSE CASE f.code = "___pow__" -> PyPow(r.val, o.val)
                                  [] f.code = "___rpow__" -> PyPow(o.val, r.val)
                                  [] f.code = "___divmod__" -> PyDivmod(r.val, o.val)
                                  [] f.code = "___getitem__" -> PyGetitem(r.val, o.val)
                                  [] OTHER -> PyGetattr(r.val, o.val),
                   log |-> o.log])

\* self._fun(arg): the inner function of the expression at address i
Call_fun(h, i, input) ==
  LET f == h[i]._fun
  IN CASE f.code = "identity" -> [val |-> input, log |-> <<>>]
       [] f.code = "constant" -> [val |-> f.constant_value, log |-> <<>>]
       [] f.code = "evaluate_all_and_apply_method" -> evaluate_all_and_apply_method(h, f, input)
       [] f.code = "___call__" -> ___call__(h, f, input)
       [] f.code = "___neg__" -> ___neg__(h, f, input)
       [] f.code = "evaluate_inner_function_and_apply_object_method" ->
            evaluate_inner_function_and_apply_object_method(h, f, input)
       [] f.code = "__and__" -> and_evaluate_both_inner_functions_and_combine(h, f, input)
       [] f.code = "__or__" -> or_evaluate_both_inner_functions_and_combine(h, f, input)
       [] f.code = "__xor__" -> xor_evaluate_both_inner_functions_and_combine(h, f, input)
       [] OTHER -> BinaryClosure(h, f, input)

\* _LambdaExpressionBase.evaluate(self, arg)
Run(h, i, input) ==
  LET r == Call_fun(h, i, input)
  IN [val |-> r.val, log |-> <<i>> \o r.log]


\* ----------------------------------------------------------- construction
NoName == "<None>"
KwNames == {"key"}

\* str(arg_name + '=' + get_repr(arg, None)) for each keyword argument
KwReprs(h, kwargs) ==
  [k \in DOMAIN kwargs |-> kwargs[k][1] \o "=" \o get_repr(h, kwargs[k][2], NoPrecedence)]

ArgReprs(h, args) == [k \in DOMAIN args |-> get_repr(h, args[k], NoPrecedence)]

\* a variant of constant that does not look for a missing name
constant_unchecked(h, value, name) ==
  IF PyCallable(value)
  THEN Create(h, ConstantNode(IF name # NoName /\ name # "" THEN name ELSE value.v, value))
  ELSE Create(h, ConstantNode(IF name # NoName /\ name # "" THEN name ELSE PyStr(value), value))

\* a variant of constant that reports a missing name as a definition error
constant_definition_error(h, value, name) ==
  IF (~IsClass(value) /\ PyCallable(value)
      /\ (~HasName(value) \/ value.v = "<lambda>") /\ name = NoName)
  THEN Raise(FunctionDefinitionError)
  ELSE constant_unchecked(h, value, name)

\* _LambdaExpressionBase.constant(value, name)
constant(h, value, name) ==
  IF IsClass(value)
  THEN Create(h, ConstantNode(IF name # NoName /\ name # "" THEN name ELSE value.v, value))
  ELSE IF PyCallable(value)
  THEN IF (~HasName(value) \/ value.v = "<lambda>") /\ name = NoName
       THEN Raise("ValueError")
       ELSE IF name # NoName /\ name # "" THEN Create(h, ConstantNode(name, value))
       ELSE IF ~HasName(value) THEN Raise("AttributeError")
       ELSE Create(h, ConstantNode(value.v, value))
  ELSE Create(h, ConstantNode(IF name # NoName /\ name # "" THEN name ELSE PyStr(value), value))

\* InputVar(symbol): symbol is a plain value, or None when it is left out
InputVar(h, symbol) ==
  IF symbol.t # "str" THEN Raise("TypeError")
  ELSE Create(h, Variable(Len(h) + 1, symbol.v))


\* _LambdaExpressionBase._get_expression_for_method_with_args(method, *args, **kwargs)
_get_expression_for_method_with_args(h, method, args, kwargs) ==
  LET rv == _get_root_var(h, args, kwargs)
      vals == [k \in DOMAIN args |-> args[k].v]
      kwvals == [k \in DOMAIN kwargs |-> kwargs[k][2].v]
      value == Application(method, vals, kwvals)
      string_expr == MethodName(method) \o "(" \o Join(ArgReprs(h, args))
                       \o (IF Len(args) > 0 /\ Len(kwargs) > 0 THEN ", " ELSE "")
                       \o Join(KwReprs(h, kwargs)) \o ")"
  IN IF rv.raised # "" THEN Raise(rv.raised)
     ELSE IF rv.root_var = None
          THEN IF IsExc(value) THEN Raise(value.v) ELSE constant(h, value, NoName)
          ELSE Create(h, Expression([code |-> "evaluate_all_and_apply_method",
                                     method |-> method, args |-> args, kwargs |-> kwargs],
                                    _PRECEDENCE_SUBSCRIPTION_SLICING_CALL_ATTRREF,
                                    string_expr, rv.root_var))

\* a variant of add_unbound_method_to_stack that hands the expression to the
\* method twice
add_unbound_method_to_stack_twice(h, self, method) ==
  _get_expression_for_method_with_args(h, method, <<NodeRef(self), NodeRef(self)>>, <<>>)

\* _LambdaExpressionBase.add_unbound_method_to_stack(self, method)
add_unbound_method_to_stack(h, self, method) ==
  _get_expression_for_method_with_args(h, method, <<NodeRef(self)>>, <<>>)

\* Bool(self), the module-level replacement of __bool__
Bool(h, self) == add_unbound_method_to_stack(h, self, "bool")

\* And(a, b), the module-level equivalent of 'a and b'
And(h, a, b) == _get_expression_for_method_with_args(h, "_and", <<a, b>>, <<>>)

\* LambdaExpression.not_
not_(h, self) == add_unbound_method_to_stack(h, self, "__not")

\* the forbidden magic methods __iter__, __bool__, __index__, __contains__
\* and __format__
__iter__(h, self) == Raise(FunctionDefinitionError)

\* a variant of __bool__ that builds the cast like the other magic methods
__bool___as_expression(h, self) == add_unbound_method_to_stack(h, self, "bool")

__bool__(h, self) == Raise(FunctionDefinitionError)
__index__(h, self) == Raise(FunctionDefinitionError)
__contains__(h, self, item) == Raise(FunctionDefinitionError)
__format__(h, self, args) == Raise(FunctionDefinitionError)

\* LambdaExpression.any_ and all_
any_(h, self) == add_unbound_method_to_stack(h, self, "any")
all_(h, self) == add_unbound_method_to_stack(h, self, "all")

\* the inner function made by is_in and contains is a closure _item_in, which
\* captures the container or the item as it is given
Capture(out, ref) ==
  IF out.new = <<>> THEN out
  ELSE LET node == out.new[1]
       IN [out EXCEPT !.new = <<[node EXCEPT !._fun =
             [code |-> node._fun.code, method |-> node._fun.method, args |-> node._fun.args,
              kwargs |-> node._fun.kwargs, captured |-> ref]]>>]

\* LambdaExpression.is_in and contains
is_in(h, self, container) ==
  Capture(add_unbound_method_to_stack(h, self, "is_in._item_in"), container)
contains(h, self, item) ==
  Capture(add_unbound_method_to_stack(h, self, "contains._item_in"), item)

\* In(item, container)
In(h, item, container) ==
  _get_expression_for_method_with_args(h, "_is_in", <<item, container>>, <<>>)

\* Get(container, key): the method is type(container).__getitem__
Get(h, container, key) ==
  _get_expression_for_method_with_args(
    h, IF IsNode(container) THEN "LambdaExpression.__getitem__" ELSE "tuple.__getitem__",
    <<container, key>>, <<>>)

\* Slice(*args, **kwargs)
Slice(h, args, kwargs) == _get_expression_for_method_with_args(h, "slice", args, kwargs)

\* Format(value, *args, **kwargs) for a template string value: the method is
\* type(value).format
Format(h, value, args, kwargs) ==
  _get_expression_for_method_with_args(h, "str.format", <<value>> \o args, kwargs)

\* the expression of a hand-built operator of main.py, once the root variable is known
\* (LambdaExpression(fun=..., precedence_level=..., str_expr=..., root_var=...);
\* the repr_on keyword that main.py also passes belongs to the generated
\* superclass, which is not part of the sources, and plays no part here)
Built(h, rv, fun, precedence_level, string_expr) ==
  IF rv.raised # "" THEN Raise(rv.raised)
  ELSE Create(h, Expression(fun, precedence_level, string_expr, rv.root_var))

\* a variant of __pow__ that renders both operands at the precedence of **
__pow___symmetric(h, self, other) ==
  Built(h, _get_root_var(h, <<NodeRef(self), other>>, <<>>),
        [code |-> "___pow__", self |-> self, other |-> other],
        _PRECEDENCE_EXPONENTIATION,
        get_repr(h, NodeRef(self), _PRECEDENCE_EXPONENTIATION) \o " ** "
          \o get_repr(h, other, _PRECEDENCE_EXPONENTIATION))

\* LambdaExpression.__pow__
__pow__(h, self, other) ==
  Built(h, _get_root_var(h, <<NodeRef(self), other>>, <<>>),
        [code |-> "___pow__", self |-> self, other |-> other],
        _PRECEDENCE_EXPONENTIATION,
        get_repr(h, NodeRef(self), _PRECEDENCE_EXPONENTIATION) \o " ** "
          \o get_repr(h, other, _PRECEDENCE_POS_NEG_BITWISE_NOT))

\* LambdaExpression.__rpow__
__rpow__(h, self, other) ==
  Built(h, _get_root_var(h, <<NodeRef(self), other>>, <<>>),
        [code |-> "___rpow__", self |-> self, other |-> other],
        _PRECEDENCE_EXPONENTIATION,
        get_repr(h, other, _PRECEDENCE_EXPONENTIATION) \o " ** "
          \o get_repr(h, NodeRef(self), _PRECEDENCE_POS_NEG_BITWISE_NOT))

\* __neg__, the unary minus, is generated from
\*   Override('__neg__', uni_operator='-',
\*            precedence_level='_PRECEDENCE_POS_NEG_BITWISE_NOT')
\* its text is the operator followed by the operand at that precedence
__neg__(h, self) ==
  Create(h, Expression([code |-> "___neg__", self |-> self],
                       _PRECEDENCE_POS_NEG_BITWISE_NOT,
                       "-" \o get_repr(h, NodeRef(self), _PRECEDENCE_POS_NEG_BITWISE_NOT),
                       h[self]._root_var))

\* LambdaExpression.__divmod__
__divmod__(h, self, other) ==
  Built(h, _get_root_var(h, <<NodeRef(self), other>>, <<>>),
        [code |-> "___divmod__", self |-> self, other |-> other],
        _PRECEDENCE_SUBSCRIPTION_SLICING_CALL_ATTRREF,
        "divmod(" \o get_repr(h, NodeRef(self), NoPrecedence) \o ", "
          \o get_repr(h, other, NoPrecedence) \o ")")

\* LambdaExpression.__getitem__
__getitem__(h, self, key) ==
  Built(h, _get_root_var(h, <<NodeRef(self), key>>, <<>>),
        [code |-> "___getitem__", self |-> self, other |-> key],
        _PRECEDENCE_SUBSCRIPTION_SLICING_CALL_ATTRREF,
        get_repr(h, NodeRef(self), _PRECEDENCE_SUBSCRIPTION_SLICING_CALL_ATTRREF)
          \o "[" \o get_repr(h, key, NoPrecedence) \o "]")

\* a variant of __getattr__ that looks for the attribute when it is built
__getattr___eager(h, self, name) ==
  LET rv == _get_root_var(h, <<NodeRef(self), name>>, <<>>)
  IN IF rv.raised = "" /\ name.v.t # "str" THEN Raise("TypeError")
     ELSE IF rv.raised = "" /\ name.v.v # "real" THEN Raise("AttributeError")
     ELSE Built(h, rv,
                [code |-> "___getattr__", self |-> self, other |-> name],
                _PRECEDENCE_SUBSCRIPTION_SLICING_CALL_ATTRREF,
                get_repr(h, NodeRef(self), _PRECEDENCE_SUBSCRIPTION_SLICING_CALL_ATTRREF)
                  \o "." \o name.v.v)

\* LambdaExpression.__getattr__; '.' + name is a TypeError unless name is a str
__getattr__(h, self, name) ==
  LET rv == _get_root_var(h, <<NodeRef(self), name>>, <<>>)
  IN IF rv.raised = "" /\ name.v.t # "str" THEN Raise("TypeError")
     ELSE Built(h, rv,
                [code |-> "___getattr__", self |-> self, other |-> name],
                _PRECEDENCE_SUBSCRIPTION_SLICING_CALL_ATTRREF,
                get_repr(h, NodeRef(self), _PRECEDENCE_SUBSCRIPTION_SLICING_CALL_ATTRREF)
                  \o "." \o name.v.v)

\* a variant of __call__ that renders the called expression as it is
__call___unparenthesized(h, self, args, kwargs) ==
  Built(h, _get_root_var(h, <<NodeRef(self)>> \o args, kwargs),
        [code |-> "___call__", self |-> self, args |-> args, kwargs |-> kwargs],
        _PRECEDENCE_SUBSCRIPTION_SLICING_CALL_ATTRREF,
        get_repr(h, NodeRef(self), NoPrecedence)
          \o "(" \o Join(ArgReprs(h, args))
          \o (IF Len(args) > 0 /\ Len(kwargs) > 0 THEN ", " ELSE "")
          \o Join(KwReprs(h, kwargs)) \o ")")

\* LambdaExpression.__call__
__call__(h, self, args, kwargs) ==
  Built(h, _get_root_var(h, <<NodeRef(self)>> \o args, kwargs),
        [code |-> "___call__", self |-> self, args |-> args, kwargs |-> kwargs],
        _PRECEDENCE_SUBSCRIPTION_SLICING_CALL_ATTRREF,
        get_repr(h, NodeRef(self), _PRECEDENCE_SUBSCRIPTION_SLICING_CALL_ATTRREF)
          \o "(" \o Join(ArgReprs(h, args))
          \o (IF Len(args) > 0 /\ Len(kwargs) > 0 THEN ", " ELSE "")
          \o Join(KwReprs(h, kwargs)) \o ")")

\* _LambdaExpressionBase.add_bound_method_to_stack(self, method_name, *m_args,
\* **m_kwargs): _get_root_var is given the tuple m_args and the dict m_kwargs
\* as two plain arguments
add_bound_method_to_stack(h, self, method_name, m_args, m_kwargs) ==
  Built(h, _get_root_var(h, <<NodeRef(self), Lit(TupV(m_args)), Lit(TupV(m_kwargs))>>, <<>>),
        [code |-> "evaluate_inner_function_and_apply_object_method", self |-> self,
         method_name |-> method_name, args |-> m_args, kwargs |-> m_kwargs],
        _PRECEDENCE_SUBSCRIPTION_SLICING_CALL_ATTRREF,
        get_repr(h, NodeRef(self), _PRECEDENCE_SUBSCRIPTION_SLICING_CALL_ATTRREF)
          \o "." \o method_name \o "(" \o Join(ArgReprs(h, m_args))
          \o Join(KwReprs(h, m_kwargs)) \o ")")

\* callable(other): an expression defines __call__
IsCallable(other) == IsNode(other) \/ PyCallable(other.v)

\* a variant of __and__ whose test of the plain value is inverted
__and___inverted_test(h, self, other) ==
  IF ~IsCallable(other)
  THEN Warned(IF Truthy(other.v) THEN Return(Lit(BoolV(FALSE))) ELSE Bool(h, self))
  ELSE Built(h, _get_root_var(h, <<NodeRef(self), other>>, <<>>),
             [code |-> "__and__", self |-> self, other |-> other],
             _PRECEDENCE_BITWISE_AND,
             get_repr(h, NodeRef(self), _PRECEDENCE_BITWISE_AND) \o " & "
               \o get_repr(h, other, _PRECEDENCE_BITWISE_AND))

\* LambdaExpression.__and__
__and__(h, self, other) ==
  IF ~IsCallable(other)
  THEN Warned(IF ~Truthy(other.v) THEN Return(Lit(BoolV(FALSE))) ELSE Bool(h, self))
  ELSE Built(h, _get_root_var(h, <<NodeRef(self), other>>, <<>>),
             [code |-> "__and__", self |-> self, other |-> other],
             _PRECEDENCE_BITWISE_AND,
             get_repr(h, NodeRef(self), _PRECEDENCE_BITWISE_AND) \o " & "
               \o get_repr(h, other, _PRECEDENCE_BITWISE_AND))

\* LambdaExpression.__or__
__or__(h, self, other) ==
  IF ~IsCallable(other)
  THEN Warned(IF Truthy(other.v) THEN Return(Lit(BoolV(TRUE))) ELSE Bool(h, self))
  ELSE Built(h, _get_root_var(h, <<NodeRef(self), other>>, <<>>),
             [code |-> "__or__", self |-> self, other |-> other],
             _PRECEDENCE_BITWISE_OR,
             get_repr(h, NodeRef(self), _PRECEDENCE_BITWISE_OR) \o " | "
               \o get_repr(h, other, _PRECEDENCE_BITWISE_OR))

\* LambdaExpression.__xor__
__xor__(h, self, other) ==
  IF ~IsCallable(other)
  THEN Warned(IF Truthy(other.v) THEN not_(h, self) ELSE Bool(h, self))
  ELSE Built(h, _get_root_var(h, <<NodeRef(self), other>>, <<>>),
             [code |-> "__xor__", self |-> self, other |-> other],
             _PRECEDENCE_BITWISE_XOR,
             get_repr(h, NodeRef(self), _PRECEDENCE_BITWISE_XOR) \o " ^ "
               \o get_repr(h, other, _PRECEDENCE_BITWISE_XOR))


\* ---------------------------------------------------------------- freezing
\* LambdaExpression.LambdaFunction.__init__
LambdaFunction(expression) == [expression |-> expression]

\* a variant where the expression is kept on the class, so that every
\* frozen function evaluates the expression frozen last
LambdaFunction__call__of_last(h, fs, f, arg) == Run(h, fs[Len(fs)].expression, arg)

\* LambdaExpression.LambdaFunction.__call__
LambdaFunction__call__(h, fs, f, arg) == Run(h, fs[f].expression, arg)

\* LambdaExpression.LambdaFunction.__str__
LambdaFunction__str__(h, fs, f) == h[fs[f].expression]._str_expr

\* LambdaExpression.LambdaFunction.__repr__
LambdaFunction__repr__(h, fs, f) ==
  "<LambdaFunction: " \o LambdaFunction__str__(h, fs, f) \o ">"

\* a variant of as_expression that returns the expression frozen first
LambdaFunction_as_expression_of_first(fs, f) == NodeRef(fs[1].expression)

\* LambdaExpression.LambdaFunction.as_expression
LambdaFunction_as_expression(fs, f) == NodeRef(fs[f].expression)

\* a variant of _ that returns a tuple whatever the number of expressions
Freeze_always_tuple(fs, expressions) ==
  LET made == [k \in DOMAIN expressions |-> LambdaFunction(expressions[k])]
      refs == [k \in DOMAIN expressions |-> FuncRef(Len(fs) + k)]
  IN [new |-> made, ret |-> TupleRef(refs)]

\* _(*expressions): the objects it creates and what it returns
Freeze(fs, expressions) ==
  LET made == [k \in DOMAIN expressions |-> LambdaFunction(expressions[k])]
      refs == [k \in DOMAIN expressions |-> FuncRef(Len(fs) + k)]
  IN [new |-> made,
      ret |-> IF Len(expressions) # 1 THEN TupleRef(refs) ELSE refs[1]]

\* ------------------------------------------------------------------ actions
Outcome(op, args, kwargs, out, log) ==
  [op |-> op, args |-> args, kwargs |-> kwargs, raised |-> out.raised,
   ret |-> out.ret, created |-> Len(out.new), warned |-> out.warned, log |-> log]

\* a variant where the result of an operation takes the place of the
\* expression created last instead of being a new object
Do_in_place(op, args, kwargs, out) ==
  /\ Len(heap) < MaxNodes
  /\ Len(heap) + Len(funcs) < MaxObjects
  /\ heap' = IF out.new = <<>> THEN heap ELSE [heap EXCEPT ![Len(heap)] = out.new[1]]
  /\ result' = Outcome(op, args, kwargs, out, <<>>)
  /\ UNCHANGED funcs

\* an operation that may create an expression; it is attempted while there
\* is room for its result
Do(op, args, kwargs, out) ==
  /\ Len(heap) < MaxNodes
  /\ Len(heap) + Len(funcs) < MaxObjects
  /\ heap' = heap \o out.new
  /\ result' = Outcome(op, args, kwargs, out, <<>>)
  /\ UNCHANGED funcs

\* an operation that is attempted while there is room for what it creates
\* and for one more object
Attempt(op, args, kwargs, out) ==
  /\ Len(heap) + Len(out.new) <= MaxNodes
  /\ Len(heap) + Len(funcs) < MaxObjects
  /\ heap' = heap \o out.new
  /\ result' = Outcome(op, args, kwargs, out, <<>>)
  /\ UNCHANGED funcs

\* InputVar(symbol)
InputVarCall ==
  \E symbol \in SymbolArgs :
    Do("InputVar", <<Lit(symbol)>>, <<>>, InputVar(heap, symbol))

\* Constant(value) and Constant(value, name)
ConstantCall ==
  \E value \in ConstValues \cup OtherCallables, name \in ConstNames \cup {NoName} :
    Do("Constant", <<Lit(value), Lit(IF name = NoName THEN NoneV ELSE StrV(name))>>, <<>>,
       constant(heap, value, name))

\* iter(x), bool(x), operator.index(x), item in x, format(x)
IterOp ==
  \E self \in DOMAIN heap : Attempt("__iter__", <<NodeRef(self)>>, <<>>, __iter__(heap, self))

BoolOp ==
  \E self \in DOMAIN heap : Attempt("__bool__", <<NodeRef(self)>>, <<>>, __bool__(heap, self))

IndexOp ==
  \E self \in DOMAIN heap : Attempt("__index__", <<NodeRef(self)>>, <<>>, __index__(heap, self))

ContainsMagicOp ==
  \E self \in DOMAIN heap, item \in {Lit(IntV(1))} :
    Attempt("__contains__", <<NodeRef(self), item>>, <<>>, __contains__(heap, self, item))

FormatMagicOp ==
  \E self \in DOMAIN heap :
    Attempt("__format__", <<NodeRef(self)>>, <<>>, __format__(heap, self, <<>>))

\* x.not_() and Not(x)
NotOp ==
  \E self \in DOMAIN heap : Do("not_", <<NodeRef(self)>>, <<>>, not_(heap, self))

\* x.any_() and x.all_()
AnyOp ==
  \E self \in DOMAIN heap : Do("any_", <<NodeRef(self)>>, <<>>, any_(heap, self))

AllOp ==
  \E self \in DOMAIN heap : Do("all_", <<NodeRef(self)>>, <<>>, all_(heap, self))

\* x.is_in(container)
IsInOp ==
  \E self \in DOMAIN heap, container \in Operands(heap, Containers) :
    Do("is_in", <<NodeRef(self), container>>, <<>>, is_in(heap, self, container))

\* x.contains(item)
ContainsOp ==
  \E self \in DOMAIN heap, item \in Operands(heap, {IntV(1)}) :
    Do("contains", <<NodeRef(self), item>>, <<>>, contains(heap, self, item))

\* In(item, container)
InCall ==
  \E item \in Operands(heap, {IntV(1)}), container \in Operands(heap, Containers) :
    Do("In", <<item, container>>, <<>>, In(heap, item, container))

\* Get(container, key)
GetCall ==
  \E container \in Operands(heap, Containers), key \in Operands(heap, {IntV(0)}) :
    Do("Get", <<container, key>>, <<>>, Get(heap, container, key))

\* Slice(stop), Slice(start, stop) and Slice(start, stop, 1)
SliceCall ==
  \E args \in SeqsUpTo(Operands(heap, {IntV(1)}), 2) \ {<<>>},
     step \in {<<>>, <<Lit(IntV(1))>>} :
    /\ Len(step) = 1 => Len(args) = 2
    /\ Do("Slice", args \o step, <<>>, Slice(heap, args \o step, <<>>))

\* Format(template, value)
FormatCall ==
  \E template \in Templates, value \in Operands(heap, {IntV(1)}) :
    Do("Format", <<Lit(template), value>>, <<>>, Format(heap, Lit(template), <<value>>, <<>>))

\* x ** other
PowOp ==
  \E self \in DOMAIN heap, other \in Operands(heap, Numbers) :
    Do("__pow__", <<NodeRef(self), other>>, <<>>, __pow__(heap, self, other))

\* other ** x for a plain other
RpowOp ==
  \E self \in DOMAIN heap, other \in {Lit(v) : v \in Numbers} :
    Do("__rpow__", <<NodeRef(self), other>>, <<>>, __rpow__(heap, self, other))

\* -x
NegOp ==
  \E self \in DOMAIN heap : Do("__neg__", <<NodeRef(self)>>, <<>>, __neg__(heap, self))

\* divmod(x, other)
DivmodOp ==
  \E self \in DOMAIN heap, other \in Operands(heap, Numbers) :
    Do("__divmod__", <<NodeRef(self), other>>, <<>>, __divmod__(heap, self, other))

\* x[key]
GetitemOp ==
  \E self \in DOMAIN heap, key \in Operands(heap, Numbers) :
    Do("__getitem__", <<NodeRef(self), key>>, <<>>, __getitem__(heap, self, key))

\* x.__getattr__(name).  With an expression as name that passes the root
\* variable check, '.' + name is built by the generated __radd__ of name,
\* which is outside this model.
GetattrOp ==
  \E self \in DOMAIN heap, name \in Operands(heap, AttrNames) :
    /\ IsNode(name) => _get_root_var(heap, <<NodeRef(self), name>>, <<>>).raised # ""
    /\ Do("__getattr__", <<NodeRef(self), name>>, <<>>, __getattr__(heap, self, name))

\* x(*args, **kwargs)
CallOp ==
  \E self \in DOMAIN heap, args \in SeqsUpTo(Operands(heap, {IntV(1)}), MaxArgs),
     kwargs \in SeqsUpTo(KwNames \X Operands(heap, {IntV(1)}), 1) :
    /\ Len(args) + Len(kwargs) <= MaxArgs
    /\ Do("__call__", <<NodeRef(self)>> \o args, kwargs, __call__(heap, self, args, kwargs))

\* x.add_bound_method_to_stack(method_name, *m_args, **m_kwargs)
BoundMethodOp ==
  \E self \in DOMAIN heap, method_name \in MethodNames,
     m_args \in SeqsUpTo(Operands(heap, {IntV(1)}), 1),
     m_kwargs \in SeqsUpTo(KwNames \X {Lit(IntV(1))}, 1) :
    Do("add_bound_method_to_stack", <<NodeRef(self), Lit(StrV(method_name))>> \o m_args,
       m_kwargs, add_bound_method_to_stack(heap, self, method_name, m_args, m_kwargs))

\* x & other
AndOp ==
  \E self \in DOMAIN heap, other \in Operands(heap, Numbers \cup Functions) :
    Do("__and__", <<NodeRef(self), other>>, <<>>, __and__(heap, self, other))

\* x | other
OrOp ==
  \E self \in DOMAIN heap, other \in Operands(heap, Numbers \cup Functions) :
    Do("__or__", <<NodeRef(self), other>>, <<>>, __or__(heap, self, other))

\* x ^ other
XorOp ==
  \E self \in DOMAIN heap, other \in Operands(heap, Numbers \cup Functions) :
    Do("__xor__", <<NodeRef(self), other>>, <<>>, __xor__(heap, self, other))

\* And(a, b)
AndCall ==
  \E a \in Operands(heap, Numbers), b \in Operands(heap, Numbers \cup Lambdas) :
    Do("And", <<a, b>>, <<>>, And(heap, a, b))

\* expression.evaluate(arg)
EvaluateCall ==
  \E self \in DOMAIN heap, arg \in Inputs :
    LET r == Run(heap, self, arg)
    IN /\ result' = Outcome("evaluate", <<NodeRef(self), Lit(arg)>>, <<>>,
                            IF IsExc(r.val) THEN Raise(r.val.v) ELSE Return(Lit(r.val)),
                            r.log)
       /\ UNCHANGED <<heap, funcs>>

\* _(*expressions), and expression.as_function() which is _(expression)
UnderscoreCall ==
  \E expressions \in SeqsUpTo(DOMAIN heap, MaxFuncs) :
    LET fr == Freeze(funcs, expressions)
    IN /\ Len(funcs) + Len(fr.new) <= MaxFuncs
       /\ Len(heap) + Len(funcs) + Len(fr.new) <= MaxObjects
       /\ funcs' = funcs \o fr.new
       /\ result' = Outcome("_", [k \in DOMAIN expressions |-> NodeRef(expressions[k])],
                            <<>>, [Return(fr.ret) EXCEPT !.new = fr.new], <<>>)
       /\ UNCHANGED heap

\* f(arg) for a frozen f
FunctionCall ==
  \E f \in DOMAIN funcs, arg \in Inputs :
    LET r == LambdaFunction__call__(heap, funcs, f, arg)
    IN /\ result' = Outcome("LambdaFunction.__call__", <<FuncRef(f), Lit(arg)>>, <<>>,
                            IF IsExc(r.val) THEN Raise(r.val.v) ELSE Return(Lit(r.val)),
                            r.log)
       /\ UNCHANGED <<heap, funcs>>

\* str(f) for a frozen f
FunctionStr ==
  \E f \in DOMAIN funcs :
    /\ result' = Outcome("LambdaFunction.__str__", <<FuncRef(f)>>, <<>>,
                         Return(Lit(StrV(LambdaFunction__str__(heap, funcs, f)))), <<>>)
    /\ UNCHANGED <<heap, funcs>>

\* repr(f) for a frozen f
FunctionRepr ==
  \E f \in DOMAIN funcs :
    /\ result' = Outcome("LambdaFunction.__repr__", <<FuncRef(f)>>, <<>>,
                         Return(Lit(StrV(LambdaFunction__repr__(heap, funcs, f)))), <<>>)
    /\ UNCHANGED <<heap, funcs>>

\* f.as_expression() for a frozen f
FunctionAsExpression ==
  \E f \in DOMAIN funcs :
    /\ result' = Outcome("LambdaFunction.as_expression", <<FuncRef(f)>>, <<>>,
                         Return(LambdaFunction_as_expression(funcs, f)), <<>>)
    /\ UNCHANGED <<heap, funcs>>

\* The program has created two variables and wrapped a function:
\*   a = InputVar('x'); b = InputVar(symbol); c = Constant(max)
Init ==
  /\ \E symbol \in Symbols :
       heap = <<Variable(1, "x"), Variable(2, symbol), ConstantNode("max", FnV("max"))>>
  /\ funcs = <<>>
  /\ result = Outcome("import", <<>>, <<>>, Return(NoRef), <<>>)

Next ==
  \/ InputVarCall
  \/ ConstantCall
  \/ IterOp
  \/ BoolOp
  \/ IndexOp
  \/ ContainsMagicOp
  \/ FormatMagicOp
  \/ NotOp
  \/ AnyOp
  \/ AllOp
  \/ IsInOp
  \/ ContainsOp
  \/ InCall
  \/ GetCall
  \/ SliceCall
  \/ FormatCall
  \/ PowOp
  \/ RpowOp
  \/ NegOp
  \/ DivmodOp
  \/ GetitemOp
  \/ GetattrOp
  \/ CallOp
  \/ BoundMethodOp
  \/ AndOp
  \/ OrOp
  \/ XorOp
  \/ AndCall
  \/ EvaluateCall
  \/ UnderscoreCall
  \/ FunctionCall
  \/ FunctionStr
  \/ FunctionRepr
  \/ FunctionAsExpression

Spec == Init /\ [][Next]_vars

\* The program has created one variable, x = InputVar('x'), and nests the
\* operators on it.
NestedInit ==
  /\ heap = <<Variable(1, "x")>>
  /\ funcs = <<>>
  /\ result = Outcome("import", <<>>, <<>>, Return(NoRef), <<>>)

NestedNext ==
  \/ PowOp
  \/ RpowOp
  \/ NegOp
  \/ AndOp
  \/ OrOp
  \/ XorOp
  \/ GetattrOp
  \/ GetitemOp
  \/ DivmodOp

NestedSpec == NestedInit /\ [][NestedNext]_vars

\* The program has created one variable and wrapped a function,
\*   x = InputVar('x'); c = Constant(max)
\* and calls expressions, those built by ** included, and evaluates them.
CallInit ==
  /\ heap = <<Variable(1, "x"), ConstantNode("max", FnV("max"))>>
  /\ funcs = <<>>
  /\ result = Outcome("import", <<>>, <<>>, Return(NoRef), <<>>)

CallNext ==
  \/ PowOp
  \/ CallOp
  \/ EvaluateCall

CallSpec == CallInit /\ [][CallNext]_vars


\* ------------------------------------------------------------- properties
IsVariable(h, i) == h[i]._fun.code = "identity"
IsConstant(h, i) == h[i]._fun.code = "constant"

BinaryOps == {"__pow__", "__divmod__", "__getitem__", "__getattr__", "__call__",
              "__and__", "__or__", "__xor__"}

\* the last operation was a binary construction on two operands, no keyword
IsBinary(r) == r.op \in BinaryOps /\ Len(r.args) = 2 /\ Len(r.kwargs) = 0

\* the last operation combined two different variables
TwoVariables(h, r) ==
  /\ IsBinary(r)
  /\ IsNode(r.args[1]) /\ IsNode(r.args[2])
  /\ IsVariable(h, r.args[1].i) /\ IsVariable(h, r.args[2].i)
  /\ r.args[1].i # r.args[2].i

\* the last operation combined a variable with a plain value
VariableAndLiteral(h, r) ==
  /\ IsBinary(r)
  /\ IsNode(r.args[1]) /\ IsVariable(h, r.args[1].i)
  /\ ~IsNode(r.args[2])

Succeeded(r) == r.raised = "" /\ r.ret # NoRef

\* C1: a binary construction (**, divmod, [], attribute access, call, &, |, ^)
\* on two variables created by two InputVar calls raises
\* FunctionDefinitionError and creates no expression, also when both have the
\* same display name; the same construction on a variable and a plain value
\* (an attribute name for attribute access) succeeds.
C1_TwoVariablesRaise ==
  /\ TwoVariables(heap, result) =>
       result.raised = FunctionDefinitionError /\ result.ret = NoRef /\ result.created = 0
  /\ VariableAndLiteral(heap, result) => Succeeded(result)

\* two variables with the same display name were combined, and it raised
C1_Witness ==
  /\ TwoVariables(heap, result)
  /\ heap[result.args[1].i]._str_expr = heap[result.args[2].i]._str_expr
  /\ result.raised = FunctionDefinitionError

\* the constructions of the model that take an expression as second operand
\* whatever its root variable (see GetattrOp for attribute access)
Combinations(h, a, b) ==
  {__pow__(h, a, b), __divmod__(h, a, b), __getitem__(h, a, b), __call__(h, a, <<b>>, <<>>),
   __and__(h, a, b), __or__(h, a, b), __xor__(h, a, b)}

\* the last operation combined a constant and a variable, in either order
ConstantAndVariable(h, r) ==
  /\ IsBinary(r) /\ r.op # "__getattr__"
  /\ IsNode(r.args[1]) /\ IsNode(r.args[2])
  /\ \/ IsConstant(h, r.args[1].i) /\ IsVariable(h, r.args[2].i)
     \/ IsVariable(h, r.args[1].i) /\ IsConstant(h, r.args[2].i)

TheVariable(h, r) == IF IsVariable(h, r.args[1].i) THEN r.args[1].i ELSE r.args[2].i

\* C2: combining a constant and a variable v, in either order, succeeds; the
\* new expression carries the identity of v, not the constant one, so every
\* combination of it with another variable w raises FunctionDefinitionError.
C2_ConstantTakesVariableIdentity ==
  ConstantAndVariable(heap, result) =>
    /\ result.raised = "" /\ IsNode(result.ret)
    /\ heap[result.ret.i]._root_var = heap[TheVariable(heap, result)]._root_var
    /\ heap[result.ret.i]._root_var # _CONSTANT_VAR_ID
    /\ \A w \in DOMAIN heap :
         IsVariable(heap, w) /\ w # TheVariable(heap, result) =>
           \A out \in Combinations(heap, result.ret.i, NodeRef(w)) :
             out.raised = FunctionDefinitionError

\* a constant was the left operand of a variable, and another variable exists
C2_Witness ==
  /\ ConstantAndVariable(heap, result)
  /\ IsConstant(heap, result.args[1].i)
  /\ IsNode(result.ret)
  /\ \E w \in DOMAIN heap : IsVariable(heap, w) /\ w # result.args[2].i

\* all the arguments of the last operation, keyword ones last
AllArgs(r) == r.args \o KwValues(r.kwargs)

\* the root variables of the expressions among the arguments
RootVars(h, all) == {h[all[k].i]._root_var : k \in {j \in DOMAIN all : IsNode(all[j])}}

\* C3 as stated: _get_root_var raises FunctionDefinitionError whenever two of
\* its arguments are expressions with two different non-constant root
\* variables, wherever they are in the argument list.
C3_TwoRootVarsRaise ==
  (/\ result.op \in {"__call__", "And"}
   /\ Cardinality(RootVars(heap, AllArgs(result)) \ {_CONSTANT_VAR_ID}) >= 2)
  => result.raised = FunctionDefinitionError

\* what C4 says _get_root_var returns when it does not raise
ReconciledIdentity(h, all) ==
  LET roots == RootVars(h, all)
  IN IF roots = {} THEN None
     ELSE IF roots = {_CONSTANT_VAR_ID} THEN _CONSTANT_VAR_ID
     ELSE CHOOSE v \in roots : v # _CONSTANT_VAR_ID

\* C4 as stated: when _get_root_var does not raise it returns the one
\* non-constant root variable of its expressions, whatever the order and what
\* follows; the constant one iff all its expressions are constant; None iff
\* none of its arguments is an expression.
C4_ReconciledIdentity ==
  LET all == AllArgs(result)
      rv == _get_root_var(heap, result.args, result.kwargs)
  IN (/\ result.op \in {"__call__", "And"}
      /\ Cardinality(RootVars(heap, all) \ {_CONSTANT_VAR_ID}) <= 1
      /\ rv.raised = "")
     => /\ rv.root_var = ReconciledIdentity(heap, all)
        /\ (IsNode(result.ret) /\ RootVars(heap, all) # {}) =>
             heap[result.ret.i]._root_var = ReconciledIdentity(heap, all)


\* what an evaluation that yields r returns to its caller, or raises
Delivered(res, r) ==
  IF IsExc(r.val) THEN res.raised = r.val.v /\ res.ret = NoRef
  ELSE res.raised = "" /\ res.ret = Lit(r.val)

\* C5: a frozen expression is a pure view of it: calling it on an input
\* returns what evaluate returns on the expression it was made from, raises
\* what evaluate raises, and its str() is the to_string() of the expression.
C5_FreezeIsPureView ==
  /\ result.op = "LambdaFunction.__call__" =>
       Delivered(result, Run(heap, funcs[result.args[1].i].expression, result.args[2].v))
  /\ result.op = "LambdaFunction.__str__" =>
       result.ret = Lit(StrV(to_string(heap, funcs[result.args[1].i].expression)))
  /\ result.op = "evaluate" =>
       Delivered(result, Run(heap, result.args[1].i, result.args[2].v))

\* a frozen derived expression was called and returned a value
C5_Witness ==
  /\ result.op = "LambdaFunction.__call__"
  /\ ~IsVariable(heap, funcs[result.args[1].i].expression)
  /\ ~IsConstant(heap, funcs[result.args[1].i].expression)
  /\ result.raised = ""

\* ref is a frozen callable made by this call, of the expression e
FrozenViewOf(ref, e) ==
  /\ ref.k = "func"
  /\ ref.i \in DOMAIN funcs /\ ref.i > Len(funcs) - result.created
  /\ funcs[ref.i].expression = e.i

\* C6: _(e1) returns one frozen callable of e1, not a sequence; _(e1, ..., en)
\* with n >= 2 returns a sequence of n frozen callables, the k-th of ek.
C6_FreezeOneOrSequence ==
  result.op = "_" =>
    /\ result.raised = ""
    /\ Len(result.args) = 1 => FrozenViewOf(result.ret, result.args[1])
    /\ Len(result.args) >= 2 =>
         /\ result.ret.k = "tuple"
         /\ Len(result.ret.v) = Len(result.args)
         /\ \A k \in DOMAIN result.args : FrozenViewOf(result.ret.v[k], result.args[k])
         /\ \A j, k \in DOMAIN result.args : j # k => result.ret.v[j] # result.ret.v[k]

\* two different expressions were frozen at once
C6_Witness ==
  /\ result.op = "_"
  /\ Len(result.args) = 2
  /\ result.args[1] # result.args[2]

\* the number of invocations of the inner function of expression i in a log
RECURSIVE Count(_, _)
Count(log, i) ==
  IF Len(log) = 0 THEN 0 ELSE (IF Head(log) = i THEN 1 ELSE 0) + Count(Tail(log), i)

\* the last operation evaluated the expression built by op on two expressions
EvaluatedNode(h, r, code) ==
  /\ r.op = "evaluate"
  /\ h[r.args[1].i]._fun.code = code
  /\ IsNode(h[r.args[1].i]._fun.other)

self_of(h, r) == h[r.args[1].i]._fun.self
other_of(h, r) == h[r.args[1].i]._fun.other.i
input_of(r) == r.args[2].v

\* C7 as stated: when a is falsy the inner function of b is never invoked
\* during the evaluation of a & b, which returns False; when a is truthy b is
\* evaluated exactly once, after a, and the result is bool(b).
C7_Original ==
  EvaluatedNode(heap, result, "__and__") =>
    LET a == Run(heap, self_of(heap, result), input_of(result))
        b == Run(heap, other_of(heap, result), input_of(result))
    IN /\ (~IsExc(a.val) /\ ~Truthy(a.val)) =>
            /\ Count(result.log, other_of(heap, result)) = 0
            /\ result.ret = Lit(BoolV(FALSE))
       /\ (~IsExc(a.val) /\ Truthy(a.val)) =>
            /\ Count(result.log, other_of(heap, result)) = 1
            /\ ~IsExc(b.val) => result.ret = Lit(BoolV(Truthy(b.val)))

\* C7 amended: when a is falsy, evaluating a & b evaluates a and nothing
\* else (b's inner function runs only if a itself evaluates b) and returns
\* False; when a is truthy, it evaluates a, then b once on the same input,
\* and returns bool(b).
C7_ShortCircuitAnd ==
  EvaluatedNode(heap, result, "__and__") =>
    LET a == Run(heap, self_of(heap, result), input_of(result))
        b == Run(heap, other_of(heap, result), input_of(result))
    IN /\ (~IsExc(a.val) /\ ~Truthy(a.val)) =>
            /\ result.log = <<result.args[1].i>> \o a.log
            /\ result.ret = Lit(BoolV(FALSE))
       /\ (~IsExc(a.val) /\ Truthy(a.val)) =>
            /\ result.log = <<result.args[1].i>> \o a.log \o b.log
            /\ ~IsExc(b.val) => result.ret = Lit(BoolV(Truthy(b.val)))

\* a & b was evaluated with a falsy and b another expression than a
C7_Witness ==
  /\ EvaluatedNode(heap, result, "__and__")
  /\ self_of(heap, result) # other_of(heap, result)
  /\ ~Truthy(Run(heap, self_of(heap, result), input_of(result)).val)
  /\ result.ret = Lit(BoolV(FALSE))

\* C8 as stated: when a is truthy the inner function of b is never invoked
\* during the evaluation of a | b, which returns True; when a is falsy b is
\* evaluated once and the result is bool(b).
C8_Original ==
  EvaluatedNode(heap, result, "__or__") =>
    LET a == Run(heap, self_of(heap, result), input_of(result))
        b == Run(heap, other_of(heap, result), input_of(result))
    IN /\ (~IsExc(a.val) /\ Truthy(a.val)) =>
            /\ Count(result.log, other_of(heap, result)) = 0
            /\ result.ret = Lit(BoolV(TRUE))
       /\ (~IsExc(a.val) /\ ~Truthy(a.val)) =>
            /\ Count(result.log, other_of(heap, result)) = 1
            /\ ~IsExc(b.val) => result.ret = Lit(BoolV(Truthy(b.val)))

\* C8 amended: when a is truthy, evaluating a | b evaluates a and nothing
\* else (b's inner function runs only if a itself evaluates b) and returns
\* True; when a is falsy, it evaluates a, then b once on the same input, and
\* returns bool(b).
C8_ShortCircuitOr ==
  EvaluatedNode(heap, result, "__or__") =>
    LET a == Run(heap, self_of(heap, result), input_of(result))
        b == Run(heap, other_of(heap, result), input_of(result))
    IN /\ (~IsExc(a.val) /\ Truthy(a.val)) =>
            /\ result.log = <<result.args[1].i>> \o a.log
            /\ result.ret = Lit(BoolV(TRUE))
       /\ (~IsExc(a.val) /\ ~Truthy(a.val)) =>
            /\ result.log = <<result.args[1].i>> \o a.log \o b.log
            /\ ~IsExc(b.val) => result.ret = Lit(BoolV(Truthy(b.val)))

\* a | b was evaluated with a truthy and b another expression than a
C8_Witness ==
  /\ EvaluatedNode(heap, result, "__or__")
  /\ self_of(heap, result) # other_of(heap, result)
  /\ Truthy(Run(heap, self_of(heap, result), input_of(result)).val)
  /\ result.ret = Lit(BoolV(TRUE))

\* C9 as stated: evaluating a ^ b evaluates a then b on the input and
\* returns the boolean bool(a) xor bool(b), True or False, whatever the
\* values of a and b.
C9_XorIsBoolean ==
  EvaluatedNode(heap, result, "__xor__") =>
    LET a == Run(heap, self_of(heap, result), input_of(result))
        b == Run(heap, other_of(heap, result), input_of(result))
    IN (~IsExc(a.val) /\ ~IsExc(b.val)) =>
         /\ result.log = <<result.args[1].i>> \o a.log \o b.log
         /\ result.ret = Lit(BoolV(Truthy(a.val) # Truthy(b.val)))

\* the last operation gave a plain value that is not callable to &, | or ^
PlainOperand(r) ==
  /\ r.op \in {"__and__", "__or__", "__xor__"}
  /\ ~IsCallable(r.args[2])

\* the returned expression evaluates to Cast(value of e) on every input, and
\* raises what e raises
CastOf(h, ref, e, Cast(_)) ==
  /\ IsNode(ref)
  /\ \A input \in Inputs :
       LET v == Run(h, e, input).val
       IN Run(h, ref.i, input).val = IF IsExc(v) THEN v ELSE Cast(v)

BoolCast(v) == BoolV(Truthy(v))
Negation(v) == BoolV(~Truthy(v))

\* C10: with a plain value that is not callable as right operand, &, | and ^
\* warn, do not raise, and return at once: & the literal False if the value
\* is falsy, | the literal True if it is truthy, ^ the negation of the left
\* expression if it is truthy, and otherwise the boolean cast of the left
\* expression.
C10_PlainRightOperand ==
  PlainOperand(result) =>
    LET left == result.args[1].i
        truthy == Truthy(result.args[2].v)
    IN /\ result.warned
       /\ result.raised = ""
       /\ (result.op = "__and__" /\ ~truthy) => result.ret = Lit(BoolV(FALSE))
       /\ (result.op = "__or__" /\ truthy) => result.ret = Lit(BoolV(TRUE))
       /\ (result.op = "__xor__" /\ truthy) => CastOf(heap, result.ret, left, Negation)
       /\ (result.op = "__and__" /\ truthy) => CastOf(heap, result.ret, left, BoolCast)
       /\ (result.op \in {"__or__", "__xor__"} /\ ~truthy) =>
            CastOf(heap, result.ret, left, BoolCast)

\* x & 1 returned the boolean cast of x
C10_Witness ==
  /\ PlainOperand(result)
  /\ result.op = "__and__"
  /\ Truthy(result.args[2].v)
  /\ IsNode(result.ret)
  /\ result.warned


\* ---------------------------------------------------- forbidden operations
ForbiddenOps == {"__iter__", "__bool__", "__index__", "__contains__", "__format__"}
Alternatives == {"not_", "any_", "all_", "is_in", "contains", "In", "Get", "Slice", "Format"}

\* the expressions among the operands of the last operation
NodeArgs(r) == {r.args[k].i : k \in {j \in DOMAIN r.args : IsNode(r.args[j])}}

\* C11: iter(), bool(), index(), 'in' and format() on an expression raise
\* FunctionDefinitionError, return nothing and create nothing, and the
\* expression can still be used; not_, any_, all_, is_in, contains, In, Get,
\* Slice and Format on an expression (with no second variable among the
\* operands) return a new expression and do not raise.
C11_ForbiddenOperationsRaise ==
  /\ result.op \in ForbiddenOps =>
       /\ result.raised = FunctionDefinitionError
       /\ result.ret = NoRef /\ result.created = 0
       /\ Succeeded(not_(heap, result.args[1].i))
  /\ (/\ result.op \in Alternatives
      /\ NodeArgs(result) # {}
      /\ Cardinality(RootVars(heap, result.args) \ {_CONSTANT_VAR_ID}) <= 1) =>
       /\ result.raised = ""
       /\ IsNode(result.ret) /\ result.created = 1
       /\ result.ret.i = Len(heap)

\* a forbidden operation was tried on a derived expression
C11_Witness ==
  /\ result.op \in ForbiddenOps
  /\ ~IsVariable(heap, result.args[1].i) /\ ~IsConstant(heap, result.args[1].i)
  /\ result.raised = FunctionDefinitionError


\* ----------------------------------------------------------- constructors
\* the value and the name of the last Constant call
value_of(r) == r.args[1].v
name_of(r) == r.args[2].v

Unnamed(value) == PyCallable(value) /\ (~HasName(value) \/ value.v = "<lambda>")
NameGiven(name) == name.t = "str" /\ name.v # ""

\* C12: Constant on a lambda or on a callable without __name__ raises and
\* creates nothing when no name is given; with a name given it succeeds and
\* the text of the expression is that name; on a named function or a class
\* without a name, the text is the __name__ of the callable.
C12_ConstantNames ==
  result.op = "Constant" =>
    /\ (Unnamed(value_of(result)) /\ name_of(result) = NoneV) =>
         result.raised # "" /\ result.ret = NoRef /\ result.created = 0
    /\ (PyCallable(value_of(result)) /\ NameGiven(name_of(result))) =>
         /\ Succeeded(result) /\ result.created = 1
         /\ to_string(heap, result.ret.i) = name_of(result).v
         /\ \A input \in Inputs : Run(heap, result.ret.i, input).val = value_of(result)
    /\ (PyCallable(value_of(result)) /\ ~Unnamed(value_of(result)) /\ name_of(result) = NoneV) =>
         /\ Succeeded(result) /\ result.created = 1
         /\ to_string(heap, result.ret.i) = value_of(result).v

\* a lambda was wrapped under a name
C12_Witness ==
  /\ result.op = "Constant"
  /\ value_of(result) = FnV("<lambda>")
  /\ NameGiven(name_of(result))
  /\ Succeeded(result)

\* C13 as stated: InputVar without a name, with a name that is not a string
\* or with the empty string raises and creates no expression.
C13_NameRequired ==
  (result.op = "InputVar" /\ ~NameGiven(result.args[1].v)) =>
    result.raised # "" /\ result.ret = NoRef /\ result.created = 0


\* ---------------------------------------------------------------- rendering
\* the precedence levels that the operations hand to get_repr
Contexts ==
  {_PRECEDENCE_BITWISE_OR, _PRECEDENCE_BITWISE_XOR, _PRECEDENCE_BITWISE_AND,
   _PRECEDENCE_POS_NEG_BITWISE_NOT, _PRECEDENCE_EXPONENTIATION,
   _PRECEDENCE_SUBSCRIPTION_SLICING_CALL_ATTRREF, _PRECEDENCE_MAX}

\* C14: get_repr of an expression is its text between parentheses if and
\* only if a context precedence is given and is strictly greater than the
\* precedence of the expression; otherwise (equal, lower, or None) it is the
\* text as it is.
C14_ParenthesesIffHigher ==
  \A i \in DOMAIN heap :
    /\ get_repr(heap, NodeRef(i), NoPrecedence) = to_string(heap, i)
    /\ \A p \in Contexts :
         get_repr(heap, NodeRef(i), p) =
           IF p > heap[i]._precedence_level
           THEN "(" \o to_string(heap, i) \o ")"
           ELSE to_string(heap, i)

\* there is an expression whose precedence is below, equal to and above
\* some context precedences
C14_Witness ==
  \E i \in DOMAIN heap :
    /\ heap[i]._precedence_level = _PRECEDENCE_EXPONENTIATION
    /\ get_repr(heap, NodeRef(i), _PRECEDENCE_SUBSCRIPTION_SLICING_CALL_ATTRREF)
         = "(" \o to_string(heap, i) \o ")"
    /\ get_repr(heap, NodeRef(i), _PRECEDENCE_EXPONENTIATION) = to_string(heap, i)
    /\ get_repr(heap, NodeRef(i), _PRECEDENCE_BITWISE_AND) = to_string(heap, i)

\* ------------------------------------------------------ nested operators
\* the expressions built by the infix operators **, &, | and ^
InfixCodes == {"___pow__", "___rpow__", "__and__", "__or__", "__xor__"}
IsInfix(node) == node._fun.code \in InfixCodes
PowCodes == {"___pow__", "___rpow__"}

\* the operands of an infix expression as they stand in the python source
\* that built it, and the operator between them
LeftOperand(node) ==
  IF node._fun.code = "___rpow__" THEN node._fun.other ELSE NodeRef(node._fun.self)
RightOperand(node) ==
  IF node._fun.code = "___rpow__" THEN NodeRef(node._fun.self) ELSE node._fun.other
InfixSymbol(node) ==
  CASE node._fun.code \in PowCodes -> " ** "
    [] node._fun.code = "__and__" -> " & "
    [] node._fun.code = "__or__" -> " | "
    [] OTHER -> " ^ "

\* the precedence of an operand: the one of its expression; a plain value of
\* the model (a number that is not negative, a function name) is an atom
PrecedenceOf(h, ref) ==
  IF IsNode(ref) THEN h[ref.i]._precedence_level ELSE _PRECEDENCE_MAX

\* Whether python, reading 'left <op> right', would group an operand
\* differently unless it is between parentheses: ** is right-associative, its
\* left operand must bind tighter than ** and its right operand at least as
\* tight as a unary sign; &, | and ^ are left-associative.
LeftNeedsParentheses(h, node) ==
  IF node._fun.code \in PowCodes
  THEN PrecedenceOf(h, LeftOperand(node)) <= node._precedence_level
  ELSE PrecedenceOf(h, LeftOperand(node)) < node._precedence_level
RightNeedsParentheses(h, node) ==
  IF node._fun.code \in PowCodes
  THEN PrecedenceOf(h, RightOperand(node)) < _PRECEDENCE_POS_NEG_BITWISE_NOT
  ELSE PrecedenceOf(h, RightOperand(node)) <= node._precedence_level

Plain(h, ref) == get_repr(h, ref, NoPrecedence)
Wrapped(h, ref) == "(" \o Plain(h, ref) \o ")"

\* C15: in the text of every expression built by nesting the operators, an
\* operand that python would group differently without parentheses stands
\* between parentheses; in particular the left operand of (a ** b) ** c.
C15_GroupingPreserved ==
  \A i \in DOMAIN heap :
    IsInfix(heap[i]) =>
      LET node == heap[i]
          l == LeftOperand(node)
          r == RightOperand(node)
          op == InfixSymbol(node)
      IN /\ LeftNeedsParentheses(heap, node) =>
              node._str_expr \in {Wrapped(heap, l) \o op \o Plain(heap, r),
                                  Wrapped(heap, l) \o op \o Wrapped(heap, r)}
         /\ RightNeedsParentheses(heap, node) =>
              node._str_expr \in {Plain(heap, l) \o op \o Wrapped(heap, r),
                                  Wrapped(heap, l) \o op \o Wrapped(heap, r)}

\* the expression at i is -v for a variable v
IsNegatedVariable(h, i) ==
  /\ h[i]._fun.code = "___neg__"
  /\ h[h[i]._fun.self]._fun.code = "identity"

\* the expression at i was built as v ** -v for a variable v
IsPowOfNegated(h, i) ==
  /\ h[i]._fun.code = "___pow__"
  /\ h[h[i]._fun.self]._fun.code = "identity"
  /\ IsNode(h[i]._fun.other)
  /\ IsNegatedVariable(h, h[i]._fun.other.i)

\* the expression at i was built by the python source -v ** -v, which is
\* -(v ** (-v))
IsNegatedPowOfNegated(h, i) ==
  /\ h[i]._fun.code = "___neg__"
  /\ IsPowOfNegated(h, h[i]._fun.self)

\* C16: in the text of a ** b the left operand is between parentheses if and
\* only if its precedence is below that of **, the right operand if and only
\* if its precedence is below that of a unary sign, and the expression has
\* the precedence of **.  So -x ** -x has the text '-x ** -x' and a negated
\* left operand is rendered as '(-x) ** ...'.
C16_AsymmetricExponentiation ==
  \A i \in DOMAIN heap :
    /\ heap[i]._fun.code \in PowCodes =>
         LET l == LeftOperand(heap[i])
             r == RightOperand(heap[i])
         IN /\ heap[i]._precedence_level = _PRECEDENCE_EXPONENTIATION
            /\ heap[i]._str_expr =
                 (IF PrecedenceOf(heap, l) < _PRECEDENCE_EXPONENTIATION
                  THEN Wrapped(heap, l) ELSE Plain(heap, l))
                 \o " ** " \o
                 (IF PrecedenceOf(heap, r) < _PRECEDENCE_POS_NEG_BITWISE_NOT
                  THEN Wrapped(heap, r) ELSE Plain(heap, r))
    /\ IsNegatedPowOfNegated(heap, i) => heap[i]._str_expr = "-x ** -x"
    /\ (heap[i]._fun.code = "___pow__" /\ IsNegatedVariable(heap, heap[i]._fun.self)) =>
         heap[i]._str_expr \in {"(-x) ** " \o Plain(heap, heap[i]._fun.other),
                                "(-x) ** " \o Wrapped(heap, heap[i]._fun.other)}

\* -x ** -x has been built, and so has a power of a negated variable
C16_Witness ==
  /\ \E i \in DOMAIN heap :
       IsNegatedPowOfNegated(heap, i) /\ heap[i]._str_expr = "-x ** -x"
  /\ \E i \in DOMAIN heap : IsPowOfNegated(heap, i) /\ heap[i]._str_expr = "x ** -x"

\* ----------------------------------------------------------- immutability
\* the expression at i is an operand of the expression at j
IsOperandOf(h, i, j) ==
  LET f == h[j]._fun
  IN /\ f.code \notin {"identity", "constant"}
     /\ \/ f.code # "evaluate_all_and_apply_method" /\ f.self = i
        \/ f.code = "evaluate_all_and_apply_method" /\ NodeRef(i) \in {f.args[k] : k \in DOMAIN f.args}
        \/ f.code \notin {"evaluate_all_and_apply_method", "___call__", "___neg__"}
             /\ f.other = NodeRef(i)

FrozenOps ==
  {"LambdaFunction.__call__", "LambdaFunction.__str__", "LambdaFunction.__repr__",
   "LambdaFunction.as_expression"}

\* C18 as stated: no operation of a frozen function returns an expression or
\* creates one.
C18_Original ==
  result.op \in FrozenOps => result.ret.k # "node" /\ result.created = 0

\* C18: no operation of a frozen function creates an expression or a
\* function or changes one; the only operation that returns an expression is
\* as_expression, which returns the very expression that was frozen.
C18_FrozenCreatesNothing ==
  [][result'.op \in FrozenOps =>
       /\ heap' = heap
       /\ funcs' = funcs
       /\ result'.created = 0
       /\ result'.ret.k = "node" =>
            /\ result'.op = "LambdaFunction.as_expression"
            /\ result'.ret = NodeRef(funcs[result'.args[1].i].expression)
            /\ result'.ret.i \in DOMAIN heap
    ]_vars

\* as_expression has been called on the second of two functions frozen from
\* different expressions
C18_Witness ==
  /\ result.op = "LambdaFunction.as_expression"
  /\ result.args[1] = FuncRef(2)
  /\ Len(funcs) = 2
  /\ funcs[1].expression # funcs[2].expression
  /\ result.ret = NodeRef(funcs[2].expression)

\* ------------------------------------------------------- reported errors
EvaluationOps == {"evaluate", "LambdaFunction.__call__"}

\* C19: evaluating an expression that was built without error, directly or
\* through a frozen function, never raises FunctionDefinitionError.
C19_NoDeferredDefinitionError ==
  result.op \in EvaluationOps => result.raised # FunctionDefinitionError

\* ---------------------------------------------------- access by name
\* attribute access and method call by name, and the closures they build
NameOps == {"__getattr__", "add_bound_method_to_stack"}
ByNameCodes == {"___getattr__", "evaluate_inner_function_and_apply_object_method"}

\* the expression that an evaluation r is about
EvaluatedExpression(fs, r) ==
  IF r.op = "evaluate" THEN r.args[1].i ELSE fs[r.args[1].i].expression

\* the expression at i reads a name given as a string on the value of an
\* operand that evaluates without error on input
ReadsName(h, i, input) ==
  /\ h[i]._fun.code \in ByNameCodes
  /\ h[i]._fun.code = "___getattr__" => ~IsNode(h[i]._fun.other)
  /\ ~IsExc(Run(h, h[i]._fun.self, input).val)

\* the value of the operand on input has no attribute of that name
LacksName(h, i, input) ==
  LET v == Run(h, h[i]._fun.self, input).val
  IN IF h[i]._fun.code = "___getattr__"
     THEN PyGetattr(v, h[i]._fun.other.v) = ExcV("AttributeError")
     ELSE ~PyHasMethod(v, h[i]._fun.method_name)

\* C20: an attribute access or a method call by name is always built without
\* error.  When the value of the operand lacks the name, evaluating the
\* expression, directly or frozen, raises AttributeError as it is; otherwise
\* an attribute access gives what getattr gives.  An evaluation, failed or
\* not, changes no expression and no function.
C20_AttributeErrorsAtEvaluation ==
  [][/\ (result'.op \in NameOps /\ ~IsNode(result'.args[2])) =>
          /\ result'.raised = ""
          /\ result'.created = 1
          /\ result'.ret = NodeRef(Len(heap'))
          /\ heap'[Len(heap')]._fun.code \in ByNameCodes
     /\ result'.op \in EvaluationOps =>
          /\ heap' = heap
          /\ funcs' = funcs
          /\ LET i == EvaluatedExpression(funcs, result')
                 input == result'.args[2].v
             IN ReadsName(heap, i, input) =>
                  /\ LacksName(heap, i, input) =>
                       result'.raised = "AttributeError" /\ result'.ret = NoRef
                  /\ (~LacksName(heap, i, input) /\ heap[i]._fun.code = "___getattr__") =>
                       Delivered(result', [val |-> PyGetattr(Run(heap, heap[i]._fun.self, input).val,
                                                            heap[i]._fun.other.v)])
    ]_vars

\* an attribute access has raised AttributeError on an input, and evaluates
\* without error on another input
C20_Witness ==
  /\ result.op \in EvaluationOps
  /\ result.raised = "AttributeError"
  /\ LET i == EvaluatedExpression(funcs, result)
     IN /\ heap[i]._fun.code = "___getattr__"
        /\ ReadsName(heap, i, input_of(result))
        /\ \E input \in Inputs : Run(heap, i, input).val = IntV(1)

\* ------------------------------------------------- functions on arguments
\* the operations that go through _get_expression_for_method_with_args with
\* the operands as they are given, and the method they hand to it
MethodOps == {"And", "In", "Get", "Slice", "Format"}
MethodOf(r) ==
  CASE r.op = "And" -> "_and"
    [] r.op = "In" -> "_is_in"
    [] r.op = "Get" -> (IF IsNode(r.args[1]) THEN "LambdaExpression.__getitem__"
                        ELSE "tuple.__getitem__")
    [] r.op = "Slice" -> "slice"
    [] OTHER -> "str.format"

\* the last operation applied a method to plain values only
OnPlainValues(r) == r.op \in MethodOps /\ \A k \in DOMAIN AllArgs(r) : ~IsNode(AllArgs(r)[k])

\* what the method returns on the operands of r when they are all plain
ValueNow(r) ==
  Application(MethodOf(r), [k \in DOMAIN r.args |-> r.args[k].v],
              [k \in DOMAIN r.kwargs |-> r.kwargs[k][2].v])

\* C21: a method applied to plain values only is called at once, and what it
\* returns, whatever it is, comes back as a new constant expression (constant
\* root variable, maximum precedence) that evaluates to that value on every
\* input without calling anything.
C21_PlainArgumentsPrecomputed ==
  (OnPlainValues(result) /\ ~IsExc(ValueNow(result))) =>
    /\ result.raised = ""
    /\ result.created = 1
    /\ result.ret = NodeRef(Len(heap))
    /\ IsConstant(heap, Len(heap))
    /\ heap[Len(heap)]._root_var = _CONSTANT_VAR_ID
    /\ heap[Len(heap)]._precedence_level = _PRECEDENCE_MAX
    /\ \A input \in Inputs :
         Run(heap, Len(heap), input) = [val |-> ValueNow(result), log |-> <<Len(heap)>>]

\* the unary functions that the operations put on the stack
StackedMethods == {"bool", "__not", "any", "all", "is_in._item_in", "contains._item_in"}

\* the expression at i was made by add_unbound_method_to_stack
IsStacked(h, i) ==
  /\ h[i]._fun.code = "evaluate_all_and_apply_method"
  /\ h[i]._fun.method \in StackedMethods

\* f(value) for the unary function f of a stacked expression
Unary(f, value) ==
  CASE f.method = "is_in._item_in" -> is_in_item_in(value, f.captured)
    [] f.method = "contains._item_in" -> contains_item_in(value, f.captured)
    [] OTHER -> Application(f.method, <<value>>, <<>>)

IsBoundMethod(h, i) ==
  h[i]._fun.code = "evaluate_inner_function_and_apply_object_method"

\* what the method of the expression at i gives when the receiver and every
\* argument that is an expression are evaluated on the same input
OnSameInput(h, i, input) ==
  LET f == h[i]._fun
      res == Run(h, f.self, input)
      a == EvaluateArgs(h, f.args, f.kwargs, input)
  IN IF IsExc(res.val) THEN res.val
     ELSE IF ~PyHasMethod(res.val, f.method_name) THEN ExcV("AttributeError")
     ELSE IF IsExc(a.val) THEN a.val
     ELSE PyCallMethod(res.val, f.method_name, a.vals, a.kwvals)

\* C23: an expression made by a method call by name evaluates, on an input,
\* to the method of the receiver's value on that input, called with the
\* arguments, where each argument that is an expression is evaluated on that
\* same input.
C23_BoundMethodOnSameInput ==
  \A i \in DOMAIN heap, input \in Inputs :
    IsBoundMethod(heap, i) => Run(heap, i, input).val = OnSameInput(heap, i, input)

\* ------------------------------------------------------ variables read
\* the expressions that the inner function of an expression refers to: the
\* receiver, the other operand, the arguments, what a closure captured
RefsOf(f) ==
  (IF "self" \in DOMAIN f THEN {NodeRef(f.self)} ELSE {})
  \cup (IF "other" \in DOMAIN f THEN {f.other} ELSE {})
  \cup (IF "args" \in DOMAIN f THEN {f.args[k] : k \in DOMAIN f.args} ELSE {})
  \cup (IF "kwargs" \in DOMAIN f THEN {f.kwargs[k][2] : k \in DOMAIN f.kwargs} ELSE {})
  \cup (IF "captured" \in DOMAIN f THEN {f.captured} ELSE {})

OperandNodes(f) == {ref.i : ref \in {r \in RefsOf(f) : IsNode(r)}}

\* the variables that the evaluation of the expression at i reads
RECURSIVE VariablesOf(_, _)
VariablesOf(h, i) ==
  IF IsVariable(h, i) THEN {i}
  ELSE IF IsConstant(h, i) THEN {}
  ELSE UNION {VariablesOf(h, j) : j \in OperandNodes(h[i]._fun)}

\* C24: no expression reads two different variables, and an expression that
\* reads a variable has the root variable of that variable.
C24_SingleVariable ==
  \A i \in DOMAIN heap :
    /\ Cardinality(VariablesOf(heap, i)) <= 1
    /\ \A v \in VariablesOf(heap, i) : heap[i]._root_var = heap[v]._root_var

\* the last operation applied a method to operands of which one at least is
\* an expression, and did not raise
OnExpressions(r) ==
  /\ r.op \in MethodOps
  /\ \E k \in DOMAIN AllArgs(r) : IsNode(AllArgs(r)[k])
  /\ r.raised = ""

\* the method of r on its operands, the expressions among them evaluated on
\* input
ValueLater(h, r, input) ==
  LET a == EvaluateArgs(h, r.args, r.kwargs, input)
  IN IF IsExc(a.val) THEN a.val ELSE Application(MethodOf(r), a.vals, a.kwvals)

\* C25: a method applied to operands of which one at least is an expression
\* returns a new expression that has the precedence of a call, evaluates on
\* an input to the method on the operands, the expressions among them
\* evaluated on that input, and has the root variable of those expressions:
\* the one that is not the constant one if there is one.
C25_DeferredApplication ==
  OnExpressions(result) =>
    /\ result.created = 1
    /\ result.ret = NodeRef(Len(heap))
    /\ heap[Len(heap)]._fun.code = "evaluate_all_and_apply_method"
    /\ heap[Len(heap)]._precedence_level = _PRECEDENCE_SUBSCRIPTION_SLICING_CALL_ATTRREF
    /\ \A input \in Inputs :
         Run(heap, Len(heap), input).val = ValueLater(heap, result, input)
    /\ Cardinality(RootVars(heap, AllArgs(result)) \ {_CONSTANT_VAR_ID}) <= 1 =>
         heap[Len(heap)]._root_var = ReconciledIdentity(heap, AllArgs(result))

\* ---------------------------------------------------------- fresh nodes
\* the precedence that main.py gives to the expression it builds around each
\* of its closures
LevelOf(code) ==
  CASE code \in {"___call__", "___getitem__", "___getattr__", "___divmod__"} ->
         _PRECEDENCE_SUBSCRIPTION_SLICING_CALL_ATTRREF
    [] code \in PowCodes -> _PRECEDENCE_EXPONENTIATION
    [] code = "__and__" -> _PRECEDENCE_BITWISE_AND
    [] code = "__xor__" -> _PRECEDENCE_BITWISE_XOR
    [] code = "__or__" -> _PRECEDENCE_BITWISE_OR
    [] OTHER -> NoPrecedence

\* C26: a variable has the maximum precedence, evaluates to its input, and
\* has a root variable that is neither the constant one nor that of another
\* variable; a constant has the maximum precedence and the constant root
\* variable; an expression built by call, indexing, attribute access or
\* divmod has the call precedence, one built by ** that of **, one built by
\* &, | or ^ that of its operator.
C26_FreshNodes ==
  \A i \in DOMAIN heap :
    /\ IsVariable(heap, i) =>
         /\ heap[i]._precedence_level = _PRECEDENCE_MAX
         /\ heap[i]._root_var # _CONSTANT_VAR_ID
         /\ \A input \in Inputs : Run(heap, i, input).val = input
         /\ \A j \in DOMAIN heap :
              (IsVariable(heap, j) /\ j # i) => heap[j]._root_var # heap[i]._root_var
    /\ IsConstant(heap, i) =>
         /\ heap[i]._precedence_level = _PRECEDENCE_MAX
         /\ heap[i]._root_var = _CONSTANT_VAR_ID
    /\ LevelOf(heap[i]._fun.code) # NoPrecedence =>
         heap[i]._precedence_level = LevelOf(heap[i]._fun.code)

\* InputVar has just made a third variable next to the two others and the
\* constant
C26_Witness ==
  /\ result.op = "InputVar"
  /\ Succeeded(result)
  /\ IsVariable(heap, result.ret.i)
  /\ Cardinality({i \in DOMAIN heap : IsVariable(heap, i)}) = 3
  /\ \E i \in DOMAIN heap : IsConstant(heap, i)

\* ------------------------------------------------- calling an expression
IsCall(h, i) == h[i]._fun.code = "___call__"

\* the value of the called expression on input, called with the arguments,
\* the expressions among them evaluated on input
CallOfValue(h, i, input) ==
  LET f == h[i]._fun
      r == Run(h, f.self, input)
      a == EvaluateArgs(h, f.args, f.kwargs, input)
  IN IF IsExc(r.val) THEN r.val
     ELSE IF IsExc(a.val) THEN a.val
     ELSE PyCall(r.val, a.vals, a.kwvals)

\* the text of the call: the called expression, between parentheses if its
\* precedence is below that of a call, then the list of the arguments
CallText(h, i) ==
  LET f == h[i]._fun
  IN (IF h[f.self]._precedence_level < _PRECEDENCE_SUBSCRIPTION_SLICING_CALL_ATTRREF
      THEN Wrapped(h, NodeRef(f.self)) ELSE Plain(h, NodeRef(f.self)))
     \o "(" \o Join(ArgReprs(h, f.args) \o KwReprs(h, f.kwargs)) \o ")"

MissingName(r) ==
  r.op = "Constant" /\ Unnamed(value_of(r)) /\ name_of(r) = NoneV

\* C28 as stated: Constant on a lambda or on a callable without __name__,
\* no name given, raises FunctionDefinitionError, the error raised when two
\* variables are combined.
C28_Original ==
  MissingName(result) => result.raised = FunctionDefinitionError

\* C28: Constant on a lambda or on a callable without __name__, no name
\* given, raises ValueError and creates nothing; FunctionDefinitionError is
\* raised by operations on expressions only, never by Constant.
C28_MissingNameIsValueError ==
  /\ MissingName(result) =>
       /\ result.raised = "ValueError"
       /\ result.ret = NoRef
       /\ result.created = 0
  /\ result.op = "Constant" => result.raised # FunctionDefinitionError

\* Constant(lambda) has raised ValueError in a program that holds a second
\* variable
C28_Witness ==
  /\ MissingName(result)
  /\ value_of(result) \in Lambdas
  /\ result.raised = "ValueError"
  /\ \E i \in DOMAIN heap : IsVariable(heap, i) /\ i > 1

\* ------------------------------------ plain callables as right operands
\* a statement that is a plain callable is called on the input, a node is
\* evaluated on it, anything else is returned as it is
Deferred(h, statement, input) ==
  IF IsNode(statement) THEN Run(h, statement.i, input).val
  ELSE IF PyCallable(statement.v) THEN PyCall(statement.v, <<input>>, <<>>)
  ELSE statement.v

\* what self & other, self | other and self ^ other evaluate to when the
\* right operand is taken as Deferred gives it
Combined(h, f, input) ==
  LET left == Run(h, f.self, input).val
      right == Deferred(h, f.other, input)
      cast == IF IsExc(right) THEN right ELSE BoolV(Truthy(right))
  IN IF IsExc(left) THEN left
     ELSE CASE f.code = "__and__" -> IF ~Truthy(left) THEN BoolV(FALSE) ELSE cast
            [] f.code = "__or__" -> IF Truthy(left) THEN BoolV(TRUE) ELSE cast
            [] f.code = "__xor__" -> IF IsExc(right) THEN right ELSE PyXor(left, right)

\* C29: evaluate(statement, input) evaluates a node on the input, calls a
\* plain callable on the input and uses what it returns, and returns anything
\* else as it is; the right operand of &, | and ^ is evaluated that way, the
\* value cast to a boolean for & and |.
C29_PlainCallableCalled ==
  /\ \A i \in DOMAIN heap :
       heap[i]._fun.code \in {"__and__", "__or__", "__xor__"} =>
         \A input \in Inputs :
           /\ evaluate(heap, heap[i]._fun.other, input).val
                = Deferred(heap, heap[i]._fun.other, input)
           /\ Run(heap, i, input).val = Combined(heap, heap[i]._fun, input)

\* ------------------------------------------------ the constant root variable
\* evaluating the expression at i on input evaluates a variable
ReadsInput(h, i, input) ==
  \E k \in DOMAIN Run(h, i, input).log : IsVariable(h, Run(h, i, input).log[k])

\* C30: an expression whose root variable is the constant one evaluates
\* without reading the input, hence to the same outcome on every input: no
\* expression that reads the input has the constant root variable.
C30_ConstantRootVarSound ==
  \A i \in DOMAIN heap :
    heap[i]._root_var = _CONSTANT_VAR_ID =>
      /\ \A input \in Inputs : ~ReadsInput(heap, i, input)
      /\ \A i1, i2 \in Inputs : Run(heap, i, i1).val = Run(heap, i, i2).val

====
